---- MODULE Spec2Model ----
(***************************************************************************)
(* State-machine model of the GenAI workflow engine: the persistence      *)
(* store (workflows and execution_states tables), the engine facade       *)
(* (start / resume / delete) and the executor's driver loop with its      *)
(* step handlers.  Several engine calls run concurrently (one per request *)
(* worker); each call owns the envelope it built or loaded and shares     *)
(* only the store.                                                         *)
(***************************************************************************)
EXTENDS Integers, Sequences, FiniteSets, TLC

\* ------------------------------------------------------------- bounds
\* Number of executions that may be started (fresh execution ids 1..MaxExecs).
MaxExecs == 1
\* Driver iterations stop once step_history holds this many entries.
MaxHistory == 5
MaxWorkflowSeq == 3

\* The concurrent engine calls (request workers).
Calls == {"c1", "c2"}

\* ------------------------------------------------------------- values
\* Python values are tagged: t is the Python type, s a scalar's text, l a
\* list's items.  "obj" is a value json.dumps cannot encode natively (bytes,
\* datetime, a user class) and writes through default=str.
NoneV == [t |-> "none", s |-> "", l |-> <<>>]
StrV(x) == [t |-> "str", s |-> x, l |-> <<>>]
ObjV == [t |-> "obj", s |-> "o", l |-> <<>>]
ListV(q) == [t |-> "list", s |-> "", l |-> q]
\* The dict an intelligent_router outputs: {chosen_route, next_step_id}
RouteV(route, target) == [t |-> "dict", s |-> route, l |-> <<StrV(target)>>]

END == "END"
None == "None"

\* Python dicts are functions whose domain is the set of present keys.
EmptyDict == [k \in {} |-> NoneV]
DictSet(d, k, v) == [x \in (DOMAIN d) \cup {k} |-> IF x = k THEN v ELSE d[x]]
DictKeep(d, k) == d

DictDel(d, k) == [x \in (DOMAIN d) \ {k} |-> d[x]]
\* dict.get(k) for dicts of tagged values
DictGet(d, k) == IF k \in DOMAIN d THEN d[k] ELSE NoneV

IsPrefix(p, q) == Len(p) <= Len(q) /\ SubSeq(q, 1, Len(p)) = p

\* ------------------------------------------------- JSON persistence form
\* json.loads(json.dumps(x, default=str)): a non-JSON value becomes the
\* string str(x); lists are converted item by item.
RECURSIVE JsonValue(_)
JsonValue(v) ==
    IF v.t = "obj" THEN StrV("str(o)")
    ELSE IF v.t = "list" THEN ListV([i \in DOMAIN v.l |-> JsonValue(v.l[i])])
    ELSE v

\* A collected_inputs entry is a tagged value or a loop-state slot
\* {collection, index, results}.
JsonSlot(x) ==
    IF "index" \in DOMAIN x
    THEN [collection |-> [i \in DOMAIN x.collection |-> JsonValue(x.collection[i])],
          index |-> x.index,
          results |-> [i \in DOMAIN x.results |-> JsonValue(x.results[i])]]
    ELSE JsonValue(x)

JsonEntry(e) == [k \in DOMAIN e |-> IF k = "output" THEN JsonValue(e[k]) ELSE e[k]]

JsonState(s) ==
    [s EXCEPT !.initial_context = [k \in DOMAIN s.initial_context |-> JsonValue(s.initial_context[k])],
              !.collected_inputs = [k \in DOMAIN s.collected_inputs |-> JsonSlot(s.collected_inputs[k])],
              !.step_history = [i \in DOMAIN s.step_history |-> JsonEntry(s.step_history[i])],
              !.final_response = JsonValue(s.final_response)]

\* ------------------------------------------------------------ workflows
\* A WorkflowStep with the dataclass defaults: on_success 'END', no
\* on_failure, no output_key.
\* input_mappings of a workflow_call step: absent, a JSON object whose values
\* are placeholders, or a text that is not JSON.
NoMappings == [kind |-> "none", fields |-> <<>>]
ObjectMappings(fields) == [kind |-> "object", fields |-> fields]
InvalidMappings == [kind |-> "invalid", fields |-> <<>>]

Step(id, type) ==
    [step_id |-> id, action_type |-> type, prompt_template |-> "prompt",
     on_success |-> END, on_failure |-> None, output_key |-> None,
     input_collection_variable |-> [src |-> "", key |-> "", text |-> ""],
     current_item_output_key |-> None, loop_body_start_step_id |-> None,
     value_to_return |-> [src |-> "", key |-> "", text |-> ""],
     routes |-> <<>>,
     target_workflow_id |-> 0, input_mappings |-> NoMappings]

\* A whole-placeholder template such as {input.k1}.
Placeholder(src, key, text) == [src |-> src, key |-> key, text |-> text]

\* Workflow 1: ask the user, then answer; a failed answer asks again.
Workflow1 ==
    [id |-> 1, name |-> "w1", start_step_id |-> "ask",
     steps |-> [ask |-> [Step("ask", "human_input") EXCEPT
                            !.output_key = "k1", !.on_success = "work"],
                work |-> [Step("work", "llm_response") EXCEPT
                            !.output_key = "k2", !.on_failure = "ask"]]]

\* Workflow 1 as its author saves it again: the question is gone.
Workflow1Revised ==
    [id |-> 0, name |-> "w1", start_step_id |-> "work",
     steps |-> [work |-> [Step("work", "llm_response") EXCEPT !.output_key = "k2"]]]

\* A workflow under a name that is not in use.
WorkflowNew ==
    [id |-> 0, name |-> "w0", start_step_id |-> "store",
     steps |-> [store |-> [Step("store", "file_storage") EXCEPT
                              !.output_key = "k1", !.on_success = "only"],
                only |-> Step("only", "llm_response")]]

\* Workflow 2: a tool step, then a file upload with no output_key, then a
\* closing step that has no failure edge.
Workflow2 ==
    [id |-> 2, name |-> "w2", start_step_id |-> "tool",
     steps |-> [tool |-> [Step("tool", "agentic_tool_use") EXCEPT
                            !.output_key = "k1", !.on_success = "upload",
                            !.on_failure = END],
                upload |-> [Step("upload", "file_ingestion") EXCEPT
                            !.on_success = "last"],
                last |-> Step("last", "llm_response")]]

\* Workflow 3: a loop over context.items whose body runs one tool step.
Workflow3 ==
    [id |-> 3, name |-> "w3", start_step_id |-> "loop",
     steps |-> [loop |-> [Step("loop", "start_loop") EXCEPT
                            !.output_key = "k2", !.on_success = "fin",
                            !.input_collection_variable =
                                Placeholder("context", "items", "{context.items}"),
                            !.current_item_output_key = "item",
                            !.loop_body_start_step_id = "body"],
                body |-> [Step("body", "agentic_tool_use") EXCEPT
                            !.output_key = "k1", !.on_success = "el",
                            !.on_failure = "el"],
                el |-> [Step("el", "end_loop") EXCEPT
                            !.value_to_return =
                                Placeholder("input", "k1", "{input.k1}")],
                fin |-> [Step("fin", "human_input") EXCEPT
                            !.output_key = "k1"]]]

\* The workflows saved before the run: id -> workflow.
SavedWorkflows == [i \in {1, 2, 3} |->
    IF i = 1 THEN Workflow1 ELSE IF i = 2 THEN Workflow2 ELSE Workflow3]

\* Workflow 4: a router with two routes whose on_success names the billing
\* step.
Workflow4 ==
    [id |-> 4, name |-> "w4", start_step_id |-> "route",
     steps |-> [route |-> [Step("route", "intelligent_router") EXCEPT
                            !.output_key = "k1", !.on_success = "ask_bill",
                            !.routes = [billing |-> "ask_bill", tech |-> "create_tech"]],
                ask_bill |-> Step("ask_bill", "llm_response"),
                create_tech |-> Step("create_tech", "llm_response")]]

\* Workflow 5: an edge to a step that is not in the workflow.
Workflow5 ==
    [id |-> 5, name |-> "w5", start_step_id |-> "first",
     steps |-> [first |-> [Step("first", "llm_response") EXCEPT
                            !.output_key = "k1", !.on_success = "gone"]]]

\* Workflow 6: a workflow without steps (start_step_id is None).
Workflow6 == [id |-> 6, name |-> "w6", start_step_id |-> None, steps |-> <<>>]

\* Workflow 7: a loop over context.one that can be entered again after it
\* has completed.
Workflow7 ==
    [id |-> 7, name |-> "w7", start_step_id |-> "loop",
     steps |-> [loop |-> [Step("loop", "start_loop") EXCEPT
                            !.output_key = "k2", !.on_success = "again",
                            !.input_collection_variable =
                                Placeholder("context", "one", "{context.one}"),
                            !.current_item_output_key = "item",
                            !.loop_body_start_step_id = "body"],
                body |-> [Step("body", "llm_response") EXCEPT
                            !.output_key = "k1", !.on_success = "el"],
                el |-> [Step("el", "end_loop") EXCEPT
                            !.value_to_return =
                                Placeholder("input", "k1", "{input.k1}")],
                again |-> [Step("again", "llm_response") EXCEPT
                            !.on_failure = "loop"]]]

\* Workflow 8: a loop over the empty list context.empty.
Workflow8 ==
    [id |-> 8, name |-> "w8", start_step_id |-> "loop",
     steps |-> [loop |-> [Step("loop", "start_loop") EXCEPT
                            !.output_key = "k2", !.on_success = "after",
                            !.input_collection_variable =
                                Placeholder("context", "empty", "{context.empty}"),
                            !.current_item_output_key = "item",
                            !.loop_body_start_step_id = "body"],
                body |-> [Step("body", "llm_response") EXCEPT !.on_success = "el"],
                el |-> Step("el", "end_loop"),
                after |-> Step("after", "llm_response")]]

\* Workflow 9: a loop whose body asks the user.
Workflow9 ==
    [id |-> 9, name |-> "w9", start_step_id |-> "loop",
     steps |-> [loop |-> [Step("loop", "start_loop") EXCEPT
                            !.on_success = "after",
                            !.input_collection_variable =
                                Placeholder("context", "one", "{context.one}"),
                            !.current_item_output_key = "item",
                            !.loop_body_start_step_id = "ask"],
                ask |-> [Step("ask", "human_input") EXCEPT
                            !.output_key = "k1", !.on_success = "el"],
                el |-> Step("el", "end_loop"),
                after |-> Step("after", "llm_response")]]

\* Workflow 10: a child that answers.
Workflow10 ==
    [id |-> 10, name |-> "w10", start_step_id |-> "answer",
     steps |-> [answer |-> Step("answer", "llm_response")]]

\* Workflow 11: a child that asks the user.
Workflow11 ==
    [id |-> 11, name |-> "w11", start_step_id |-> "ask",
     steps |-> [ask |-> [Step("ask", "human_input") EXCEPT !.output_key = "k1"]]]

\* Workflow 12: a first answer, then a call of workflow 10 whose query is
\* mapped from that answer.
Workflow12 ==
    [id |-> 12, name |-> "w12", start_step_id |-> "first",
     steps |-> [first |-> [Step("first", "llm_response") EXCEPT
                            !.output_key = "k1", !.on_success = "call"],
                call |-> [Step("call", "workflow_call") EXCEPT
                            !.output_key = "k2", !.target_workflow_id = 10,
                            !.input_mappings = ObjectMappings(
                                [query |-> Placeholder("input", "k1", "{input.k1}")])]]]

\* Workflow 13: a call of the asking child, mapped without a query, with a
\* failure edge.
Workflow13 ==
    [id |-> 13, name |-> "w13", start_step_id |-> "call",
     steps |-> [call |-> [Step("call", "workflow_call") EXCEPT
                            !.target_workflow_id = 11, !.on_failure = "fallback",
                            !.input_mappings = ObjectMappings(
                                [topic |-> Placeholder("context", "one", "{context.one}")])],
                fallback |-> Step("fallback", "llm_response")]]

\* Workflow 14: a call of the asking child with no mappings and no failure
\* edge.
Workflow14 ==
    [id |-> 14, name |-> "w14", start_step_id |-> "call",
     steps |-> [call |-> [Step("call", "workflow_call") EXCEPT
                            !.target_workflow_id = 11]]]

\* The workflows saved before a run of the driver scenarios: id -> workflow.
\* A step field that holds a placeholder and was never set.
Unset == [src |-> "", key |-> "", text |-> None]

\* Workflow 15: answer, then a loop whose input_collection_variable was never
\* set, with a failure path.
Workflow15 ==
    [id |-> 15, name |-> "w15", start_step_id |-> "first",
     steps |-> [first |-> [Step("first", "llm_response") EXCEPT
                            !.output_key = "k1", !.on_success = "loop",
                            !.on_failure = "loop"],
                loop |-> [Step("loop", "start_loop") EXCEPT
                            !.on_success = "after", !.on_failure = "fallback",
                            !.input_collection_variable = Unset,
                            !.current_item_output_key = "item",
                            !.loop_body_start_step_id = "body"],
                body |-> [Step("body", "llm_response") EXCEPT !.on_success = "el"],
                el |-> Step("el", "end_loop"),
                after |-> Step("after", "llm_response"),
                fallback |-> Step("fallback", "llm_response")]]

\* Workflow 16: ask the user, then the loop of workflow 15.
Workflow16 ==
    [id |-> 16, name |-> "w16", start_step_id |-> "ask",
     steps |-> [ask |-> [Step("ask", "human_input") EXCEPT
                            !.output_key = "k1", !.on_success = "loop"],
                loop |-> Workflow15.steps["loop"],
                body |-> Workflow15.steps["body"],
                el |-> Workflow15.steps["el"],
                after |-> Workflow15.steps["after"],
                fallback |-> Step("fallback", "llm_response")]]

\* Workflow 17: a loop over context.items whose body is a loop over
\* context.one.
Workflow17 ==
    [id |-> 17, name |-> "w17", start_step_id |-> "outer",
     steps |-> [outer |-> [Step("outer", "start_loop") EXCEPT
                            !.output_key = "k2", !.on_success = END,
                            !.input_collection_variable =
                                Placeholder("context", "items", "{context.items}"),
                            !.current_item_output_key = "item",
                            !.loop_body_start_step_id = "inner"],
                inner |-> [Step("inner", "start_loop") EXCEPT
                            !.output_key = "k1", !.on_success = "outer_el",
                            !.on_failure = "outer_el",
                            !.input_collection_variable =
                                Placeholder("context", "one", "{context.one}"),
                            !.current_item_output_key = "inner_item",
                            !.loop_body_start_step_id = "body"],
                body |-> [Step("body", "agentic_tool_use") EXCEPT
                            !.on_success = "inner_el", !.on_failure = "inner_el"],
                inner_el |-> Step("inner_el", "end_loop"),
                outer_el |-> [Step("outer_el", "end_loop") EXCEPT
                            !.value_to_return =
                                Placeholder("input", "item", "{input.item}")]]]

\* The workflows saved before a run of the nested loop scenarios.
NestedWorkflows == [i \in {7, 17} |-> IF i = 7 THEN Workflow7 ELSE Workflow17]

\* The workflows saved before a run of the scenarios with a raising handler,
\* and one that answers.
RaiseWorkflows == [i \in {10, 15, 16} |->
    IF i = 10 THEN Workflow10 ELSE IF i = 15 THEN Workflow15 ELSE Workflow16]

DriverWorkflows == [i \in {4, 5, 6, 7, 8, 9} |->
    CASE i = 4 -> Workflow4 [] i = 5 -> Workflow5 [] i = 6 -> Workflow6
      [] i = 7 -> Workflow7 [] i = 8 -> Workflow8 [] OTHER -> Workflow9]

\* The workflows saved before a run of the sub-workflow scenarios.
CallWorkflows == [i \in {10, 11, 12, 13, 14} |->
    CASE i = 10 -> Workflow10 [] i = 11 -> Workflow11 [] i = 12 -> Workflow12
      [] i = 13 -> Workflow13 [] OTHER -> Workflow14]

\* Every workflow of the two catalogs, and the ids a caller may name.
AllWorkflows ==
    SavedWorkflows @@ DriverWorkflows @@ CallWorkflows @@ RaiseWorkflows
    @@ NestedWorkflows
WorkflowIds == DOMAIN AllWorkflows

\* Workflow.get_step: None for an unknown id
HasStep(wf, sid) == sid \in DOMAIN wf.steps

\* What callers pass in.
Queries == {"q"}
Contexts == {EmptyDict,
             [items |-> ListV(<<StrV("a"), ObjV>>), one |-> ListV(<<StrV("a")>>),
              empty |-> ListV(<<>>)]}
UserInputs == {StrV("u")}

\* ------------------------------------------------------------ variables
VARIABLES
    workflows,          \* table workflows: id -> workflow
    execution_states,   \* table execution_states: execution_id -> row
    calls,              \* the engine calls in progress, per worker
    next_execution_id,  \* the next fresh execution id (uuid4)
    workflow_seq,       \* sqlite_sequence of the workflows table (AUTOINCREMENT)
    evaluation,         \* a template evaluation: its inputs and, once done, its result
    data_rows           \* a table of the data database: primary key -> row

vars ==
    <<workflows, execution_states, calls, next_execution_id, workflow_seq,
      evaluation, data_rows>>

\* No template is being evaluated.
NoEvaluation == [op |-> "none"]

\* An empty table of the data database.
NoRows == {}

NoWorkflow == [id |-> 0, name |-> "", start_step_id |-> None, steps |-> EmptyDict]

NoState ==
    [execution_id |-> 0, workflow_id |-> 0, query |-> "",
     initial_context |-> EmptyDict, collected_inputs |-> EmptyDict,
     step_history |-> <<>>, current_step_id |-> None, final_response |-> NoneV]

NoResponse == [status |-> None]

\* Bookkeeping of a call, not program state: collected_inputs writes since the
\* last history append (all of them, and those of an output_key or of the
\* user value), the largest such counts seen at an append, the handlers the
\* call dispatched, and, for a resume, the history length it loaded.
NoGhost ==
    [writes |-> 0, key_writes |-> 0, max_writes |-> 0, max_key_writes |-> 0,
     dispatched |-> 0, loaded_len |-> 0]

\* A worker with no call in progress.
IdleCall ==
    [pc |-> "idle", op |-> None, execution_id |-> 0, workflow |-> NoWorkflow,
     state |-> NoState, loop_stack |-> <<>>, response |-> NoResponse,
     ghost |-> NoGhost]

Init ==
    /\ workflows = SavedWorkflows
    /\ execution_states = [e \in {} |-> NoState]
    /\ calls = [c \in Calls |-> IdleCall]
    /\ next_execution_id = 1
    /\ workflow_seq = 3
    /\ evaluation = NoEvaluation
    /\ data_rows = NoRows

\* One worker and the catalog of the driver scenarios.
InitDriver ==
    /\ workflows = DriverWorkflows
    /\ execution_states = [e \in {} |-> NoState]
    /\ calls = [c \in {"c1"} |-> IdleCall]
    /\ next_execution_id = 1
    /\ workflow_seq = 9
    /\ evaluation = NoEvaluation
    /\ data_rows = NoRows

\* One worker and the catalog of the scenarios with a raising handler.
InitRaise ==
    /\ workflows = RaiseWorkflows
    /\ execution_states = [e \in {} |-> NoState]
    /\ calls = [c \in {"c1"} |-> IdleCall]
    /\ next_execution_id = 1
    /\ workflow_seq = 16
    /\ evaluation = NoEvaluation
    /\ data_rows = NoRows

\* The workflows saved before a run of the loop scenarios: a loop over two
\* items whose body always reaches its end_loop, and a loop over one item
\* whose body may fail.
LoopWorkflows == [i \in {3, 7} |-> IF i = 3 THEN Workflow3 ELSE Workflow7]

\* One worker and the catalog of the loop scenarios.
InitLoop ==
    /\ workflows = LoopWorkflows
    /\ execution_states = [e \in {} |-> NoState]
    /\ calls = [c \in {"c1"} |-> IdleCall]
    /\ next_execution_id = 1
    /\ workflow_seq = 7
    /\ evaluation = NoEvaluation
    /\ data_rows = NoRows

\* One worker and the catalog of the nested loop scenarios.
InitNested ==
    /\ workflows = NestedWorkflows
    /\ execution_states = [e \in {} |-> NoState]
    /\ calls = [c \in {"c1"} |-> IdleCall]
    /\ next_execution_id = 1
    /\ workflow_seq = 17
    /\ evaluation = NoEvaluation
    /\ data_rows = NoRows

\* One worker and the catalog of the sub-workflow scenarios.
InitCalls ==
    /\ workflows = CallWorkflows
    /\ execution_states = [e \in {} |-> NoState]
    /\ calls = [c \in {"c1"} |-> IdleCall]
    /\ next_execution_id = 1
    /\ workflow_seq = 14
    /\ evaluation = NoEvaluation
    /\ data_rows = NoRows

\* One worker, workflow 1 saved, and an author who saves workflows.
InitAuthoring ==
    /\ workflows = [i \in {1} |-> Workflow1]
    /\ execution_states = [e \in {} |-> NoState]
    /\ calls = [c \in {"c1"} |-> IdleCall]
    /\ next_execution_id = 1
    /\ workflow_seq = 1
    /\ evaluation = NoEvaluation
    /\ data_rows = NoRows

\* ------------------------------------------------------------ storage
\* WorkflowStorage.get_workflow
GetWorkflow(wid) == IF wid \in DOMAIN workflows THEN workflows[wid] ELSE NoWorkflow

\* WorkflowStorage.get_execution_state: only a row whose status is 'paused'
HasPausedState(store, eid) == eid \in DOMAIN store /\ store[eid].status = "paused"

SaveExecutionStateRunning(store, eid, wid, status, state) ==
    [x \in (DOMAIN store) \cup {eid} |->
        IF x = eid
        THEN [workflow_id |-> wid, status |-> "running", state |-> JsonState(state)]
        ELSE store[x]]

\* An upsert whose update leaves the status column out.
SaveExecutionStateKeepingStatus(store, eid, wid, status, state) ==
    IF eid \in DOMAIN store
    THEN [store EXCEPT ![eid].state = JsonState(state)]
    ELSE [x \in (DOMAIN store) \cup {eid} |->
            IF x = eid
            THEN [workflow_id |-> wid, status |-> status, state |-> JsonState(state)]
            ELSE store[x]]

\* WorkflowStorage.save_execution_state: insert, or on conflict update status
\* and state_json; the workflow_id of an existing row is kept.
SaveExecutionState(store, eid, wid, status, state) ==
    IF eid \in DOMAIN store
    THEN [store EXCEPT ![eid].status = status, ![eid].state = JsonState(state)]
    ELSE [x \in (DOMAIN store) \cup {eid} |->
            IF x = eid
            THEN [workflow_id |-> wid, status |-> status, state |-> JsonState(state)]
            ELSE store[x]]

\* WorkflowStorage.get_execution_state: the envelope of the row whose status
\* is 'paused', else None
GetExecutionState(store, eid) ==
    IF HasPausedState(store, eid) THEN store[eid].state ELSE None

\* WorkflowStorage.delete_execution_state
DeleteExecutionState(store, eid) == [x \in (DOMAIN store) \ {eid} |-> store[x]]

\* WorkflowStorage.delete_workflow: DELETE FROM workflows WHERE id = ?.  The
\* connection never enables foreign keys, so the ON DELETE CASCADE of
\* execution_states is not enforced and its rows stay.
DeleteWorkflowRow(table, wid) == [x \in (DOMAIN table) \ {wid} |-> table[x]]

\* The id of the row that has the given name.
WorkflowIdByName(table, name) == CHOOSE i \in DOMAIN table : table[i].name = name

HasWorkflowName(table, name) == \E i \in DOMAIN table : table[i].name = name

\* The id save_workflow returns: the id of the row of that name, which for a
\* new name is the next value of the AUTOINCREMENT sequence.
SavedWorkflowId(table, seq, wf) ==
    IF HasWorkflowName(table, wf.name) THEN WorkflowIdByName(table, wf.name) ELSE seq + 1

\* A plain INSERT that gives every save a row of its own.
SaveWorkflowRowInsertOnly(table, seq, wf) ==
    [x \in (DOMAIN table) \cup {seq + 1} |->
        IF x = seq + 1 THEN [wf EXCEPT !.id = seq + 1] ELSE table[x]]

\* WorkflowStorage.save_workflow: INSERT ... ON CONFLICT(name) DO UPDATE. A
\* row of that name keeps its id and takes the new fields; a new name gets a
\* new row.
SaveWorkflowRow(table, seq, wf) ==
    LET id == SavedWorkflowId(table, seq, wf)
    IN [x \in (DOMAIN table) \cup {id} |-> IF x = id THEN [wf EXCEPT !.id = id] ELSE table[x]]

\* ------------------------------------------------------------ templates
\* BaseActionExecutor._get_value_from_state for {context.KEY}, {input.KEY} and
\* {query}
GetValueFromState(ph, state) ==
    IF ph.src = "context" THEN DictGet(state.initial_context, ph.key)
    ELSE IF ph.src = "input" THEN DictGet(state.collected_inputs, ph.key)
    ELSE IF ph.src = "query" THEN StrV(state.query)
    ELSE NoneV

\* BaseActionExecutor._fill_prompt_template on a template that is exactly one
\* placeholder: the value with its type, or the template text when the value
\* is None.
FillWholePlaceholder(ph, state) ==
    LET value == GetValueFromState(ph, state)
    IN IF value # NoneV THEN value ELSE StrV(ph.text)

\* BaseActionExecutor._fill_prompt_template on a template without placeholders
FillPlainTemplate(template) == template

\* A template is a sequence of tokens: literal text, a blank, or a placeholder
\* with its text.
TextToken(s) == [kind |-> "text", src |-> "", key |-> "", text |-> s]
BlankToken == [kind |-> "blank", src |-> "", key |-> "", text |-> " "]
PlaceholderToken(src, key) ==
    [kind |-> "ph", src |-> src, key |-> key, text |-> "{" \o src \o "." \o key \o "}"]
QueryToken == [kind |-> "ph", src |-> "query", key |-> "", text |-> "{query}"]

\* The template as the string it is.
RECURSIVE TemplateText(_)
TemplateText(template) ==
    IF template = <<>> THEN "" ELSE Head(template).text \o TemplateText(Tail(template))

\* template.strip()
RECURSIVE StripLeft(_)
StripLeft(template) ==
    IF template # <<>> /\ Head(template).kind = "blank"
    THEN StripLeft(Tail(template)) ELSE template

RECURSIVE StripRight(_)
StripRight(template) ==
    IF template # <<>> /\ template[Len(template)].kind = "blank"
    THEN StripRight(SubSeq(template, 1, Len(template) - 1)) ELSE template

Strip(template) == StripRight(StripLeft(template))

\* re.fullmatch(placeholder_regex, template.strip())
IsWholePlaceholder(template) ==
    Len(Strip(template)) = 1 /\ Strip(template)[1].kind = "ph"

\* A dict value.
DictV == [t |-> "dict", s |-> "d", l |-> <<>>]

\* json.dumps(value, default=str)
RECURSIVE JsonDumps(_)
JsonDumpsItems(items) ==
    IF items = <<>> THEN ""
    ELSE IF Len(items) = 1 THEN JsonDumps(items[1])
    ELSE JsonDumps(items[1]) \o ", " \o JsonDumps(items[2])
JsonDumps(v) ==
    CASE v.t = "str" -> "\"" \o v.s \o "\""
      [] v.t = "none" -> "null"
      [] v.t = "list" -> "[" \o JsonDumpsItems(v.l) \o "]"
      [] v.t = "dict" -> "{\"" \o v.s \o "\": 1}"
      [] OTHER -> "\"str(" \o v.s \o ")\""

\* str(value) in place of the JSON text.
ReplaceMatchAsText(token, state) ==
    LET value == GetValueFromState(token, state)
    IN IF value = NoneV THEN "" ELSE IF value.t = "str" THEN value.s ELSE "<" \o value.t \o ">"

\* replace_match: what an embedded placeholder is replaced by
ReplaceMatch(token, state) ==
    LET value == GetValueFromState(token, state)
    IN IF value = NoneV THEN ""
       ELSE IF value.t # "str" THEN JsonDumps(value)
       ELSE value.s

\* re.sub(placeholder_regex, replace_match, template)
RECURSIVE Substitute(_, _)
Substitute(template, state) ==
    IF template = <<>> THEN ""
    ELSE (IF Head(template).kind = "ph"
          THEN ReplaceMatch(Head(template), state) ELSE Head(template).text)
         \o Substitute(Tail(template), state)

\* A fill that substitutes also when the template is one placeholder.
FillPromptTemplateAsText(template, state) == StrV(Substitute(template, state))

\* BaseActionExecutor._fill_prompt_template: '' for no template; for a
\* template that is one placeholder the value itself, or the template when
\* the value is None; the substituted string otherwise.
FillPromptTemplate(template, state) ==
    IF template = <<>> THEN StrV("")
    ELSE IF IsWholePlaceholder(template)
    THEN LET value == GetValueFromState(Strip(template)[1], state)
         IN IF value # NoneV THEN value ELSE StrV(TemplateText(template))
    ELSE StrV(Substitute(template, state))

\* ------------------------------------------------------------ handlers
\* What the LLM and the tools may answer.
LlmTexts == {"text"}
ToolResults == {ObjV}
SummaryTexts == {"summary"}

\* A handler's outcome: its result record, the collected_inputs it leaves and
\* the number of collected_inputs keys it assigned.
Outcome(result, ci, n) ==
    [result |-> result, collected_inputs |-> ci, writes |-> n, children |-> <<>>]

\* A handler that ends in an exception it does not catch.
Raised(step, ci, error) ==
    Outcome([step_id |-> step.step_id, raised |-> TRUE, error |-> error], ci, 0)

\* HumanInputAction.execute
HumanInput(step, state) ==
    {Outcome([status |-> "awaiting_input",
              prompt |-> FillPlainTemplate(step.prompt_template),
              output_key |-> step.output_key], state.collected_inputs, 0)}

\* FileIngestionAction.execute
FileIngestion(step, state) ==
    {Outcome([status |-> "awaiting_file_upload",
              prompt |-> FillPlainTemplate(step.prompt_template),
              output_key |-> step.output_key,
              allowed_file_types |-> <<>>, max_files |-> 1], state.collected_inputs, 0)}

\* FileStorageAction.execute
FileStorage(step, state) ==
    {Outcome([status |-> "awaiting_file_upload",
              prompt |-> FillPlainTemplate(step.prompt_template),
              output_key |-> step.output_key,
              allowed_file_types |-> <<>>, max_files |-> 1], state.collected_inputs, 0)}

\* An answering step that asks the user to confirm instead.
LlmResponseAwaitingInput(step, state) == HumanInput(step, state)

\* WorkflowExecutor._execute_llm_response: the assistant's text, or the
\* failure made of an exception
LlmResponse(step, state) ==
    {Outcome([step_id |-> step.step_id, success |-> TRUE, type |-> "llm_response",
              output |-> StrV(t)], state.collected_inputs, 0) : t \in LlmTexts}
    \cup {Outcome([step_id |-> step.step_id, success |-> FALSE, error |-> "llm_error"],
                  state.collected_inputs, 0)}

\* WorkflowExecutor._execute_agentic_tool_use: the called tool's return value,
\* or a failure (no tool selected, unknown tool, exception)
AgenticToolUse(step, state) ==
    {Outcome([step_id |-> step.step_id, success |-> TRUE, type |-> "tool_call",
              tool_name |-> "tool", output |-> v], state.collected_inputs, 0) : v \in ToolResults}
    \cup {Outcome([step_id |-> step.step_id, success |-> FALSE, error |-> "tool_error"],
                  state.collected_inputs, 0)}

LoopStateKey(step_id) == "__loop_state_" \o step_id

\* The last history entry, {} for an empty history
LastHistoryEntry(state) ==
    IF state.step_history # <<>> THEN state.step_history[Len(state.step_history)]
    ELSE EmptyDict

IsNonEmptyList(v) == v.t = "list" /\ v.l # <<>>

\* isinstance(input_collection, list)
IsInstanceList(v) == v.t = "list"

\* An iteration that always takes the first item.
CurrentItemFirst(loop_state) == loop_state.collection[1]

\* collection[current_index]: Python indexes from 0
CurrentItem(loop_state) == loop_state.collection[loop_state.index + 1]

\* StartLoopAction.execute
StartLoop(step, state) ==
    LET key == LoopStateKey(step.step_id)
        ci0 == state.collected_inputs
        first == key \notin DOMAIN ci0
        input_collection == GetValueFromState(step.input_collection_variable, state)
    IN IF first /\ step.input_collection_variable.text = None
       \* _get_value_from_state(None, state): None has no strip()
       THEN {Raised(step, ci0, "attribute_error")}
       ELSE IF first /\ ~IsInstanceList(input_collection)
       THEN {Outcome([step_id |-> step.step_id, success |-> FALSE, error |-> "not_a_list"],
                     ci0, 0)}
       ELSE
        LET ci1 == IF first
                   THEN DictSet(ci0, key, [collection |-> input_collection.l,
                                           index |-> 0, results |-> <<>>])
                   ELSE ci0
            n1 == IF first THEN 1 ELSE 0
            loop_state == ci1[key]
            last == LastHistoryEntry(state)
        IN IF loop_state.index >= Len(loop_state.collection)
           THEN {Outcome([step_id |-> step.step_id, success |-> TRUE,
                          type |-> "start_loop_complete",
                          output |-> ListV(loop_state.results)],
                         DictDel(ci1, key), n1)}
           ELSE
            LET aggregate == "type" \in DOMAIN last /\ last.type = "end_loop"
                results == IF aggregate
                           THEN Append(loop_state.results,
                                       IF "output" \in DOMAIN last THEN last.output ELSE NoneV)
                           ELSE loop_state.results
                current_item == CurrentItem(loop_state)
                ci2 == DictSet(ci1, step.current_item_output_key, current_item)
                ci3 == DictSet(ci2, key, [collection |-> loop_state.collection,
                                          index |-> loop_state.index + 1,
                                          results |-> results])
            IN {Outcome([step_id |-> step.step_id, success |-> TRUE,
                         status |-> "start_loop_iteration",
                         type |-> "start_loop_iteration",
                         next_step_override |-> step.loop_body_start_step_id],
                        ci3, n1 + 2)}

\* EndLoopAction.execute
EndLoop(step, state) ==
    LET last == LastHistoryEntry(state)
        iteration_output ==
            IF step.value_to_return.text # ""
            THEN FillWholePlaceholder(step.value_to_return, state)
            ELSE IF "output" \in DOMAIN last THEN last.output
            ELSE StrV("iteration_completed")
    IN {Outcome([step_id |-> step.step_id, success |-> TRUE,
                 status |-> "loop_iteration_complete", type |-> "end_loop",
                 output |-> iteration_output], state.collected_inputs, 0)}

\* What the routing LLM may answer.
RouterAnswers == {"billing", "tech", "other"}

\* IntelligentRouterAction.execute: the chosen route's target as
\* next_step_override, or a failure (no routes, no prompt, an answer that is
\* no route, an exception)
IntelligentRouter(step, state) ==
    LET failure(e) == Outcome([step_id |-> step.step_id, success |-> FALSE, error |-> e],
                              state.collected_inputs, 0)
    IN IF DOMAIN step.routes = {} THEN {failure("no_routes")}
       ELSE IF step.prompt_template = None THEN {failure("no_prompt")}
       ELSE {IF a \in DOMAIN step.routes
             THEN Outcome([step_id |-> step.step_id, success |-> TRUE,
                           type |-> "intelligent_router",
                           output |-> RouteV(a, step.routes[a]),
                           next_step_override |-> step.routes[a]],
                          state.collected_inputs, 0)
             ELSE failure("invalid_route") : a \in RouterAnswers}
            \cup {failure("router_error")}

\* BaseActionExecutor._fill_json_template on input_mappings: {} for none, the
\* object with every value filled for a JSON object
FillJsonTemplate(mappings, state) ==
    [k \in DOMAIN mappings.fields |-> FillWholePlaceholder(mappings.fields[k], state)]

ChildQueryOfParent(sub_context, state) == state.query

\* WorkflowCallAction.execute: the child's query is the mapped object's query
\* (a text in the mappings of the catalog), else the parent's
ChildQuery(sub_context, state) ==
    IF "query" \in DOMAIN sub_context THEN sub_context["query"].s ELSE state.query

ChildResultPausing(step, response) ==
    IF response.status = "completed"
    THEN [step_id |-> step.step_id, success |-> TRUE, type |-> "workflow_call",
          output |-> response.response]
    ELSE IF response.status = "awaiting_input"
    THEN [status |-> "awaiting_input", prompt |-> response.response,
          output_key |-> step.output_key]
    ELSE [step_id |-> step.step_id, success |-> FALSE, error |-> "sub_workflow_failed"]

\* WorkflowCallAction.execute: the step result made of the child's response
ChildResult(step, response) ==
    IF response.status = "completed"
    THEN [step_id |-> step.step_id, success |-> TRUE, type |-> "workflow_call",
          output |-> response.response]
    ELSE IF response.status = "awaiting_input"
    THEN [step_id |-> step.step_id, success |-> FALSE, error |-> "sub_workflow_paused"]
    ELSE [step_id |-> step.step_id, success |-> FALSE, error |-> "sub_workflow_failed"]

RECURSIVE InitAndRun(_, _, _, _)

\* WorkflowCallAction.execute: load the child, resolve input_mappings, run the
\* child through the engine on a fresh execution id and turn its response into
\* this step's result. The child runs of the outcome are kept with it.
WorkflowCall(step, state) ==
    LET failure(e) == {Outcome([step_id |-> step.step_id, success |-> FALSE, error |-> e],
                               state.collected_inputs, 0)}
    IN IF step.target_workflow_id = 0 THEN failure("missing_target_workflow_id")
       ELSE IF step.target_workflow_id \notin DOMAIN workflows
       THEN failure("sub_workflow_not_found")
       ELSE IF step.input_mappings.kind = "invalid" THEN failure("invalid_input_mappings")
       ELSE LET sub_context == FillJsonTemplate(step.input_mappings, state)
                query == ChildQuery(sub_context, state)
            IN {[Outcome(ChildResult(step, run.response), state.collected_inputs, 0)
                    EXCEPT !.children = <<run>>]
                : run \in InitAndRun(workflows[step.target_workflow_id], query,
                                     sub_context, next_execution_id)}

\* WorkflowExecutor._execute_step: an action type that has no handler
UnknownActionType(step, state) ==
    {Outcome([step_id |-> step.step_id, success |-> FALSE,
              error |-> "unknown_action_type"], state.collected_inputs, 0)}

\* The dispatch of the handler classes of actions/: executor.py's action_map
\* does not list them, so this follows the specification's handler table.
RegisteredAction(step, state) ==
    CASE step.action_type = "start_loop" -> StartLoop(step, state)
      [] step.action_type = "end_loop" -> EndLoop(step, state)
      [] step.action_type = "intelligent_router" -> IntelligentRouter(step, state)
      [] step.action_type = "workflow_call" -> WorkflowCall(step, state)
      [] step.action_type = "file_storage" -> FileStorage(step, state)
      [] OTHER -> UnknownActionType(step, state)

\* WorkflowExecutor._execute_step: dispatch on action_type
ExecuteStepHandler(step, state) ==
    CASE step.action_type = "human_input" -> HumanInput(step, state)
      [] step.action_type = "file_ingestion" -> FileIngestion(step, state)
      [] step.action_type = "llm_response" -> LlmResponse(step, state)
      [] step.action_type = "agentic_tool_use" -> AgenticToolUse(step, state)
      [] OTHER -> RegisteredAction(step, state)

\* ------------------------------------------------------------ driver
Max(a, b) == IF a >= b THEN a ELSE b

\* n keys of collected_inputs were assigned, k of them an output_key or the
\* user value
GhostWrite(g, n, k) == [g EXCEPT !.writes = @ + n, !.key_writes = @ + k]
\* an entry was appended to step_history
GhostAppend(g) ==
    [g EXCEPT !.max_writes = Max(@, g.writes), !.max_key_writes = Max(@, g.key_writes),
              !.writes = 0, !.key_writes = 0]

\* The driver goes on to its next iteration.
Continue(state, stack, ghost) ==
    [kind |-> "continue", payload |-> [status |-> "running"],
     state |-> state, loop_stack |-> stack, ghost |-> ghost]
\* The driver returns payload (with the envelope as its "state").
Return(payload, state, stack, ghost) ==
    [kind |-> "return", payload |-> payload,
     state |-> state, loop_stack |-> stack, ghost |-> ghost]

\* WorkflowExecutor.execute, a result whose status is awaiting_input or
\* awaiting_file_upload: the paused payload, the envelope untouched
Suspend(step, state, stack, ghost, result) ==
    Return([status |-> "paused", response |-> result.prompt,
            output_key |-> result.output_key, pause_type |-> result.status]
           @@ (IF result.status = "awaiting_file_upload"
               THEN [allowed_file_types |-> result.allowed_file_types,
                     max_files |-> result.max_files]
               ELSE EmptyDict),
           state, stack, ghost)

\* The three loop branches of the driver follow the specification's driver
\* rules: the executor.py of the repository has no loop branch.
SuspendInLoopAsPause(step, state, stack, ghost, result) ==
    Suspend(step, state, stack, ghost, result)

\* A suspension inside a loop body is a hard failure.
SuspendInLoop(step, state, stack, ghost, result) ==
    Return([status |-> "failed", error |-> "suspension_inside_loop"], state, stack, ghost)

LoopBodyStartAsSuccess(step, state, stack, ghost, result) ==
    Continue([state EXCEPT !.step_history = Append(@, result),
                           !.current_step_id = step.on_success],
             stack, GhostAppend(ghost))

\* Loop-body-start: push the start_loop's id, go to the loop body, append
\* nothing to the history.
LoopBodyStart(step, state, stack, ghost, result) ==
    Continue([state EXCEPT !.current_step_id = result.next_step_override],
             Append(stack, step.step_id), ghost)

LoopIterationCompleteAsSuccess(step, state, stack, ghost, result) ==
    Continue([state EXCEPT !.step_history = Append(@, result),
                           !.current_step_id = step.on_success],
             stack, GhostAppend(ghost))

\* Loop-iteration-complete: pop the owning start_loop, append the result, go
\* back to the start_loop; an end_loop that no start_loop owns is a terminal
\* failure.
LoopIterationComplete(step, state, stack, ghost, result) ==
    IF stack = <<>>
    THEN Return([status |-> "failed", error |-> "end_loop_without_start_loop"],
                state, stack, ghost)
    ELSE Continue([state EXCEPT !.step_history = Append(@, result),
                                !.current_step_id = stack[Len(stack)]],
                  SubSeq(stack, 1, Len(stack) - 1), GhostAppend(ghost))

\* WorkflowExecutor.execute: a successful result's output is stored under the
\* step's output_key
HasOutputToStore(step, result) ==
    /\ step.output_key # None
    /\ "success" \in DOMAIN result /\ result.success
    /\ "output" \in DOMAIN result

StoreOutputSkipped(step, result, ci) == ci

StoreOutput(step, result, ci) ==
    IF HasOutputToStore(step, result)
    THEN DictSet(ci, step.output_key, result.output)
    ELSE ci

SuccessTargetRaw(step) == IF step.on_success = END THEN "end" ELSE step.on_success

\* WorkflowExecutor.execute: the step a success leads to
SuccessTarget(step) == step.on_success

NextStepIgnoringOverride(step, result) == SuccessTarget(step)

\* Success with next_step_override: the override when the result carries one,
\* else on_success (a driver rule of the specification; executor.py follows
\* on_success only).
NextStepOnSuccess(step, result) ==
    IF "next_step_override" \in DOMAIN result
    THEN result.next_step_override
    ELSE SuccessTarget(step)

FailureTargetEnd(step) == END

\* WorkflowExecutor.execute: the step a failure leads to, None when the step
\* has no failure edge
FailureTarget(step) == step.on_failure

\* WorkflowExecutor.execute, a success or failure result: store the output
\* under output_key, append the result, follow on_success or on_failure
SuccessOrFailure(step, state, stack, ghost, result) ==
    LET success == "success" \in DOMAIN result /\ result.success
        ci == StoreOutput(step, result, state.collected_inputs)
        g1 == IF HasOutputToStore(step, result) THEN GhostWrite(ghost, 1, 1) ELSE ghost
        s1 == [state EXCEPT !.collected_inputs = ci,
                            !.step_history = Append(@, result)]
        g2 == GhostAppend(g1)
    IN IF success
       THEN Continue([s1 EXCEPT !.current_step_id = NextStepOnSuccess(step, result),
                                !.final_response =
                                    IF step.on_success = END /\ "type" \in DOMAIN result
                                       /\ result.type = "llm_response"
                                    THEN result.output ELSE @],
                     stack, g2)
       ELSE IF FailureTarget(step) # None
       THEN Continue([s1 EXCEPT !.current_step_id = FailureTarget(step)], stack, g2)
       ELSE Return([status |-> "failed", error |-> result.error], s1, stack, g2)

\* The driver's inspection of a handler's result
ProcessResult(step, state, stack, ghost, result) ==
    LET status == IF "status" \in DOMAIN result THEN result.status ELSE None
    IN CASE status \in {"awaiting_input", "awaiting_file_upload"} ->
                IF stack # <<>>
                THEN SuspendInLoop(step, state, stack, ghost, result)
                ELSE Suspend(step, state, stack, ghost, result)
         [] status = "start_loop_iteration" ->
                LoopBodyStart(step, state, stack, ghost, result)
         [] status = "loop_iteration_complete" ->
                LoopIterationComplete(step, state, stack, ghost, result)
         [] OTHER -> SuccessOrFailure(step, state, stack, ghost, result)

\* WorkflowExecutor.execute, the except clause around the while loop: an
\* exception that leaves a handler ends the execution as failed with the
\* exception's message.
CriticalError(step, state, stack, ghost, result) ==
    Return([status |-> "failed", error |-> result.error], state, stack, ghost)

\* WorkflowExecutor.execute, one iteration of the while loop: look the step
\* up, dispatch its handler, act on the result
ExecuteIteration(wf, state, stack, ghost) ==
    IF ~HasStep(wf, state.current_step_id)
    THEN {Return([status |-> "failed", error |-> "step_not_found"], state, stack, ghost)
            @@ [children |-> <<>>]}
    ELSE LET step == wf.steps[state.current_step_id]
         IN {(IF "raised" \in DOMAIN o.result
              THEN CriticalError(step,
                                 [state EXCEPT !.collected_inputs = o.collected_inputs],
                                 stack, ghost, o.result)
              ELSE ProcessResult(step,
                           [state EXCEPT !.collected_inputs = o.collected_inputs],
                           stack,
                           GhostWrite([ghost EXCEPT !.dispatched = @ + 1], o.writes, 0),
                           o.result))
                @@ [children |-> o.children]
             : o \in ExecuteStepHandler(step, state)}

\* A completion that answers with final_response as it finds it.
ExecuteCompletionWithoutSummary(state, stack, ghost) ==
    {Return([status |-> "completed", response |-> state.final_response],
            state, stack, ghost)
        @@ [children |-> <<>>]}

\* WorkflowExecutor.execute after the while loop: the final response is the
\* one the last llm_response set, or else a generated summary
ExecuteCompletion(state, stack, ghost) ==
    {Return([status |-> "completed", response |-> final],
            [state EXCEPT !.final_response = final], stack, ghost)
        @@ [children |-> <<>>]
     : final \in IF state.final_response \notin {NoneV, StrV("")}
                 THEN {state.final_response}
                 ELSE {StrV(t) : t \in SummaryTexts}}

\* ------------------------------------------------------------ engine
\* WorkflowEngine._init_and_run: the fresh envelope
InitialState(eid, wf, query, context) ==
    [execution_id |-> eid, workflow_id |-> wf.id, query |-> query,
     initial_context |-> context, collected_inputs |-> EmptyDict,
     step_history |-> <<>>, current_step_id |-> wf.start_step_id,
     final_response |-> NoneV]

\* A marker that does not say where the user value goes.
PauseMarkerWithoutKey(step_id, payload) ==
    [step_id |-> step_id, type |-> "pause_" \o payload.pause_type,
     prompt |-> payload.response, output_key |-> None]

\* The history entry that records a pause
PauseMarker(step_id, payload) ==
    [step_id |-> step_id, type |-> "pause_" \o payload.pause_type,
     prompt |-> payload.response, output_key |-> payload.output_key]

PausedEnvelopeReset(state, marker) ==
    [state EXCEPT !.step_history = Append(@, marker), !.collected_inputs = EmptyDict]

\* WorkflowEngine._run_execution_loop: the envelope saved at a pause is the
\* executor's envelope with the pause marker appended
PausedEnvelope(state, marker) == [state EXCEPT !.step_history = Append(@, marker)]

\* The executor's paused payload handed to the caller as it is.
SuspensionResponseOfExecutor(eid, payload) == payload

\* The response of a suspension
SuspensionResponse(eid, payload) ==
    [status |-> "awaiting_input", execution_id |-> eid,
     response |-> payload.response, pause_type |-> payload.pause_type]
    @@ (IF payload.pause_type = "awaiting_file_upload"
        THEN [allowed_file_types |-> payload.allowed_file_types,
              max_files |-> payload.max_files]
        ELSE EmptyDict)

\* The response of a completed or failed run
TerminalResponse(payload) ==
    IF payload.status = "completed"
    THEN [status |-> "completed", response |-> payload.response]
    ELSE [status |-> "failed", error |-> payload.error]

\* WorkflowExecutor.execute as a whole: the iterations up to the return
RECURSIVE DriveToReturn(_, _, _, _)
DriveToReturn(wf, state, stack, ghost) ==
    IF state.current_step_id \in {END, None}
    THEN ExecuteCompletion(state, stack, ghost)
    ELSE UNION {IF o.kind = "continue"
                THEN {[r EXCEPT !.children = o.children \o @]
                      : r \in DriveToReturn(wf, o.state, o.loop_stack, o.ghost)}
                ELSE {o}
                : o \in ExecuteIteration(wf, state, stack, ghost)}

\* WorkflowEngine._init_and_run with _run_execution_loop, for a child: the
\* fresh envelope, the response, and the row a pause leaves in
\* execution_states.
InitAndRun(wf, query, context, eid) ==
    LET initial == InitialState(eid, wf, query, context)
    IN {[execution_id |-> eid, workflow_id |-> wf.id, initial |-> initial,
         paused |-> o.payload.status = "paused",
         state |-> IF o.payload.status = "paused"
                   THEN PausedEnvelope(o.state,
                            PauseMarker(wf.steps[o.state.current_step_id].step_id,
                                        o.payload))
                   ELSE o.state,
         response |-> IF o.payload.status = "paused"
                      THEN SuspensionResponse(eid, o.payload)
                      ELSE TerminalResponse(o.payload)]
        : o \in DriveToReturn(wf, initial, <<>>, NoGhost)}

\* The execution_states table after the child runs of a step: a paused child
\* has saved its envelope, a completed or failed one has deleted its row.
RECURSIVE PersistChildren(_, _)
PersistChildren(store, children) ==
    IF children = <<>> THEN store
    ELSE LET run == Head(children)
         IN PersistChildren(
                IF run.paused
                THEN SaveExecutionState(store, run.execution_id, run.workflow_id,
                                        "paused", run.state)
                ELSE DeleteExecutionState(store, run.execution_id),
                Tail(children))

\* WorkflowEngine._run_execution_loop once the executor has returned: a pause
\* appends its marker and saves the envelope as 'paused'; a completion or a
\* failure deletes the execution's row
RunExecutionLoop(c, o) ==
    LET eid == o.state.execution_id
        wf == calls[c].workflow
        store == PersistChildren(execution_states, o.children)
    IN IF o.payload.status = "paused"
       THEN LET paused == PausedEnvelope(o.state,
                              PauseMarker(wf.steps[o.state.current_step_id].step_id,
                                          o.payload))
            IN /\ execution_states' =
                    SaveExecutionState(store, eid, wf.id, "paused", paused)
               /\ calls' = [calls EXCEPT ![c].pc = "done",
                                         ![c].state = paused,
                                         ![c].loop_stack = o.loop_stack,
                                         ![c].ghost = GhostAppend(o.ghost),
                                         ![c].response = SuspensionResponse(eid, o.payload)]
       ELSE /\ execution_states' = DeleteExecutionState(store, eid)
            /\ calls' = [calls EXCEPT ![c].pc = "done",
                                      ![c].state = o.state,
                                      ![c].loop_stack = o.loop_stack,
                                      ![c].ghost = o.ghost,
                                      ![c].response = TerminalResponse(o.payload)]

FailedCallDriven(op, eid, state, error) ==
    [IdleCall EXCEPT !.pc = "running", !.op = op, !.execution_id = eid, !.state = state]

\* WorkflowEngine.start_execution_by_id, resume_execution: the call answers
\* failed at once, without entering _run_execution_loop
FailedCall(op, eid, state, error) ==
    [IdleCall EXCEPT !.pc = "done", !.op = op, !.execution_id = eid, !.state = state,
                     !.response = [status |-> "failed", error |-> error]]

\* WorkflowEngine.start_execution_by_id
StartExecutionById(c, wid, query, context) ==
    /\ c \in DOMAIN calls
    /\ calls[c].pc = "idle"
    /\ next_execution_id <= MaxExecs
    /\ IF wid \notin DOMAIN workflows
       THEN /\ calls' = [calls EXCEPT ![c] =
                            FailedCall("start", 0, NoState, "workflow_not_found")]
            /\ UNCHANGED next_execution_id
       ELSE /\ calls' = [calls EXCEPT ![c] = [IdleCall EXCEPT
                    !.pc = "running", !.op = "start",
                    !.execution_id = next_execution_id,
                    !.workflow = workflows[wid],
                    !.state = InitialState(next_execution_id, workflows[wid], query, context)]]
            /\ next_execution_id' = next_execution_id + 1
    /\ UNCHANGED <<workflows, workflow_seq, execution_states>>
    /\ UNCHANGED <<evaluation, data_rows>>

\* What the routing LLM may reply: NONE, the name of a workflow of one of the
\* catalogs, a name no workflow has, or no reply at all (the call raised).
RouterError == "<error>"
RouterReplies == {"NONE", "w1", "w4", "w12", "nobody", RouterError}

FirstWorkflowId(table, reply) ==
    IF DOMAIN table = {} THEN 0
    ELSE CHOOSE i \in DOMAIN table : \A j \in DOMAIN table : i <= j

\* WorkflowRouter.find_matching_workflow: the id of the workflow whose name
\* is the reply, 0 (None) for an empty list, for NONE, for a name no workflow
\* has and for a failed LLM call
FindMatchingWorkflow(table, reply) ==
    IF DOMAIN table = {} THEN 0
    ELSE IF reply = RouterError THEN 0
    ELSE IF reply = "NONE" THEN 0
    ELSE IF HasWorkflowName(table, reply) THEN WorkflowIdByName(table, reply)
    ELSE 0

\* WorkflowEngine.start_execution: route the query, then start the matched
\* workflow or answer that none matched
StartExecution(c, query, context, reply) ==
    /\ c \in DOMAIN calls
    /\ calls[c].pc = "idle"
    /\ next_execution_id <= MaxExecs
    /\ LET wid == FindMatchingWorkflow(workflows, reply)
       IN IF wid = 0
          THEN /\ calls' = [calls EXCEPT ![c] =
                               FailedCall("start", 0, NoState, "no_matching_workflow")]
               /\ UNCHANGED next_execution_id
          ELSE /\ calls' = [calls EXCEPT ![c] = [IdleCall EXCEPT
                       !.pc = "running", !.op = "start",
                       !.execution_id = next_execution_id,
                       !.workflow = workflows[wid],
                       !.state = InitialState(next_execution_id, workflows[wid],
                                              query, context)]]
               /\ next_execution_id' = next_execution_id + 1
    /\ UNCHANGED <<workflows, workflow_seq, execution_states>>
    /\ UNCHANGED <<evaluation, data_rows>>

ProvideInputUnrecorded(paused_state, paused_step, user_input) ==
    LET last == paused_state.step_history[Len(paused_state.step_history)]
        output_key == IF "output_key" \in DOMAIN last THEN last.output_key ELSE None
    IN IF output_key # None
       THEN [paused_state EXCEPT !.collected_inputs = DictSet(@, output_key, user_input)]
       ELSE paused_state

\* WorkflowEngine.resume_execution: the user's value goes under the output_key
\* the pause marker carries, and a human_input_provided entry records it
ProvideInput(paused_state, paused_step, user_input) ==
    LET last == paused_state.step_history[Len(paused_state.step_history)]
        output_key == IF "output_key" \in DOMAIN last THEN last.output_key ELSE None
    IN IF output_key # None
       THEN [paused_state EXCEPT
                !.collected_inputs = DictSet(@, output_key, user_input),
                !.step_history = Append(@,
                    [step_id |-> paused_step.step_id,
                     type |-> "human_input_provided",
                     input_summary |-> user_input.s])]
       ELSE paused_state

ResumeTargetSameStep(paused_step) == paused_step.step_id

\* WorkflowEngine.resume_execution: the step the resumed execution goes on at
ResumeTarget(paused_step) == paused_step.on_success

\* WorkflowEngine.resume_execution up to its call of _run_execution_loop
ResumeExecution(c, eid, user_input) ==
    /\ c \in DOMAIN calls
    /\ calls[c].pc = "idle"
    /\ IF ~HasPausedState(execution_states, eid)
       THEN calls' = [calls EXCEPT ![c] =
                        FailedCall("resume", eid, NoState, "execution_not_found")]
       ELSE
        LET paused_state == execution_states[eid].state
            wid == paused_state.workflow_id
        IN IF wid \notin DOMAIN workflows
           THEN calls' = [calls EXCEPT ![c] =
                            FailedCall("resume", eid, paused_state, "workflow_not_found")]
           ELSE IF ~HasStep(workflows[wid], paused_state.current_step_id)
           THEN calls' = [calls EXCEPT ![c] =
                            FailedCall("resume", eid, paused_state, "state_corrupt")]
           ELSE
            LET workflow == workflows[wid]
                paused_step == workflow.steps[paused_state.current_step_id]
                stored == ProvideInput(paused_state, paused_step, user_input)
                wrote == stored.collected_inputs # paused_state.collected_inputs
                         \/ Len(stored.step_history) > Len(paused_state.step_history)
                appended == Len(stored.step_history) > Len(paused_state.step_history)
                g0 == [NoGhost EXCEPT !.loaded_len = Len(paused_state.step_history)]
                g1 == IF wrote THEN GhostWrite(g0, 1, 1) ELSE g0
            IN calls' = [calls EXCEPT ![c] = [IdleCall EXCEPT
                    !.pc = "running", !.op = "resume", !.execution_id = eid,
                    !.workflow = workflow,
                    !.state = [stored EXCEPT !.current_step_id = ResumeTarget(paused_step)],
                    !.ghost = IF appended THEN GhostAppend(g1) ELSE g1]]
    /\ UNCHANGED <<workflows, workflow_seq, execution_states, next_execution_id>>
    /\ UNCHANGED <<evaluation, data_rows>>

\* One iteration of the driver loop; when the executor returns from it, the
\* rest of _run_execution_loop follows without a break.
ExecuteStep(c) ==
    /\ c \in DOMAIN calls
    /\ calls[c].pc = "running"
    /\ calls[c].state.current_step_id \notin {END, None}
    /\ Len(calls[c].state.step_history) < MaxHistory
    /\ \E o \in ExecuteIteration(calls[c].workflow, calls[c].state,
                                 calls[c].loop_stack, calls[c].ghost) :
          IF o.kind = "continue"
          THEN /\ calls' = [calls EXCEPT ![c].state = o.state,
                                         ![c].loop_stack = o.loop_stack,
                                         ![c].ghost = o.ghost]
               /\ execution_states' = PersistChildren(execution_states, o.children)
               /\ next_execution_id' = next_execution_id + Len(o.children)
          ELSE /\ RunExecutionLoop(c, o)
               /\ next_execution_id' = next_execution_id + Len(o.children)
    /\ UNCHANGED <<workflows, workflow_seq>>
    /\ UNCHANGED <<evaluation, data_rows>>

\* The driver loop ends at END: the executor returns completed and
\* _run_execution_loop deletes the row and answers.
ExecuteEnd(c) ==
    /\ c \in DOMAIN calls
    /\ calls[c].pc = "running"
    /\ calls[c].state.current_step_id \in {END, None}
    /\ \E o \in ExecuteCompletion(calls[c].state, calls[c].loop_stack, calls[c].ghost) :
          RunExecutionLoop(c, o)
    /\ UNCHANGED <<workflows, workflow_seq, next_execution_id>>
    /\ UNCHANGED <<evaluation, data_rows>>

\* The caller receives the response; the worker is free again.
ReturnToCaller(c) ==
    /\ c \in DOMAIN calls
    /\ calls[c].pc = "done"
    /\ calls' = [calls EXCEPT ![c] = IdleCall]
    /\ UNCHANGED <<workflows, workflow_seq, execution_states, next_execution_id>>
    /\ UNCHANGED <<evaluation, data_rows>>

\* WorkflowEngine.delete_workflow
DeleteWorkflow(wid) ==
    /\ wid \in DOMAIN workflows
    /\ workflows' = DeleteWorkflowRow(workflows, wid)
    /\ UNCHANGED <<workflow_seq, execution_states, calls, next_execution_id>>
    /\ UNCHANGED <<evaluation, data_rows>>

\* WorkflowEngine.save_workflow. SQLite takes a value of the AUTOINCREMENT
\* sequence for every INSERT of the upsert, also when it ends in the update.
SaveWorkflow(wf) ==
    /\ workflow_seq < MaxWorkflowSeq
    /\ workflows' = SaveWorkflowRow(workflows, workflow_seq, wf)
    /\ workflow_seq' = workflow_seq + 1
    /\ UNCHANGED <<execution_states, calls, next_execution_id>>
    /\ UNCHANGED <<evaluation, data_rows>>

Next ==
    \/ \E c \in Calls, wid \in WorkflowIds, q \in Queries, ctx \in Contexts :
            StartExecutionById(c, wid, q, ctx)
    \/ \E c \in Calls, q \in Queries, ctx \in Contexts, reply \in RouterReplies :
            StartExecution(c, q, ctx, reply)
    \/ \E c \in Calls, eid \in 1..MaxExecs, v \in UserInputs : ResumeExecution(c, eid, v)
    \/ \E c \in Calls : ExecuteStep(c)
    \/ \E c \in Calls : ExecuteEnd(c)
    \/ \E c \in Calls : ReturnToCaller(c)
    \/ \E wid \in WorkflowIds : DeleteWorkflow(wid)

Spec == Init /\ [][Next]_vars

\* The driver scenarios: routers, unknown step ids and loops, one call at a
\* time.
SpecDriver == InitDriver /\ [][Next]_vars

\* The sub-workflow scenarios: parents that call a child workflow.
SpecCalls == InitCalls /\ [][Next]_vars

\* The loop scenarios; the driver's while loop goes on to its next step
\* without waiting for anything.
SpecLoopFair ==
    InitLoop /\ [][Next]_vars /\ \A c \in Calls : WF_vars(ExecuteStep(c))

\* The nested loop scenarios.
SpecNested == InitNested /\ [][Next]_vars

\* The scenarios with a raising handler.
SpecRaise == InitRaise /\ [][Next]_vars

\* What an author saves.
AuthoredWorkflows == {Workflow1Revised, WorkflowNew}

NextAuthoring ==
    \/ Next
    \/ \E wf \in AuthoredWorkflows : SaveWorkflow(wf)

\* Executions of workflow 1 while workflows are saved.
SpecAuthoring == InitAuthoring /\ [][NextAuthoring]_vars

\* ------------------------------------------------------------ authoring graphs
\* A node and an edge of the authoring graph as the frontend sends them.
GraphNode(id, type, routes) == [id |-> id, type |-> type, data |-> [routes |-> routes]]
GraphEdge(source, handle, target) ==
    [source |-> source, sourceHandle |-> handle, target |-> target]

StartNode == GraphNode("start", "startNode", <<>>)
EndNode == GraphNode("end", "endNode", <<>>)

\* node.get('type', '').replace('Node', '')
NodeType(type) ==
    CASE type = "startNode" -> "start"
      [] type = "endNode" -> "end"
      [] type = "human_inputNode" -> "human_input"
      [] type = "llm_responseNode" -> "llm_response"
      [] type = "condition_checkNode" -> "condition_check"
      [] type = "intelligent_routerNode" -> "intelligent_router"
      [] type = "start_loopNode" -> "start_loop"
      [] type = "end_loopNode" -> "end_loop"
      [] OTHER -> type

\* node_types_by_id: the type of the last node that has the id, None without
NodeTypeById(nodes, id) ==
    LET at == {i \in 1..Len(nodes) : nodes[i].id = id}
    IN IF at = {} THEN None
       ELSE NodeType(nodes[CHOOSE i \in at : \A j \in at : j <= i].type)

\* edge.get("sourceHandle") or "default"
SourceHandle(edge) ==
    IF edge.sourceHandle \in {None, ""} THEN "default" ELSE edge.sourceHandle

\* edges_by_source[source].get(handle): the target of the last edge that
\* leaves source by handle, None without one. Of a start_loop node only the
\* handles loopBody, onSuccess and onFailure are kept.
Connection(nodes, edges, source, handle) ==
    LET kept == {i \in 1..Len(edges) :
                    /\ edges[i].source = source
                    /\ SourceHandle(edges[i]) = handle
                    /\ NodeTypeById(nodes, source) = "start_loop" =>
                           handle \in {"loopBody", "onSuccess", "onFailure"}}
    IN IF kept = {} THEN None
       ELSE edges[CHOOSE i \in kept : \A j \in kept : j <= i].target

\* connections.get(handle, "END")
ConnectionOrEnd(nodes, edges, source, handle) ==
    IF Connection(nodes, edges, source, handle) = None
    THEN END ELSE Connection(nodes, edges, source, handle)

\* Normalize 'end' to 'END'
NormalizeEnd(target) == IF target = "end" THEN END ELSE target

\* Workflow.from_graph, the step made of one node: the targets come from the
\* edges by node type; on_success, on_failure and loop_body_start_step_id are
\* normalised, the values of routes are not.
StepOfNode(nodes, edges, node) ==
    LET type == NodeType(node.type)
        base == Step(node.id, type)
        conn(h) == Connection(nodes, edges, node.id, h)
        connOrEnd(h) == ConnectionOrEnd(nodes, edges, node.id, h)
    IN CASE type = "start_loop" ->
                [base EXCEPT
                    !.loop_body_start_step_id = NormalizeEnd(connOrEnd("loopBody")),
                    !.on_success = NormalizeEnd(connOrEnd("onSuccess")),
                    !.on_failure = NormalizeEnd(conn("onFailure"))]
         [] type = "intelligent_router" ->
                [base EXCEPT
                    !.routes = [r \in DOMAIN node.data.routes |-> connOrEnd(r)]]
         [] type = "condition_check" ->
                [base EXCEPT
                    !.on_success = NormalizeEnd(connOrEnd("onSuccess")),
                    !.on_failure = NormalizeEnd(connOrEnd("onFailure"))]
         [] OTHER ->
                [base EXCEPT
                    !.on_success = NormalizeEnd(connOrEnd("default")),
                    !.on_failure = NormalizeEnd(conn("onFailure"))]

\* Workflow.from_graph raises ValueError: no edge leaves the start node.
FromGraphRaises(graph) ==
    Connection(graph.nodes, graph.edges, "start", "default") \in {None, ""}

\* Workflow.from_graph: a step for every node that is not the start or the end
\* node; start_step_id is the target of the start node's edge as it is.
FromGraph(graph) ==
    LET nodes == graph.nodes
        kept == {i \in 1..Len(nodes) : NodeType(nodes[i].type) \notin {"start", "end"}}
        last(id) == CHOOSE i \in kept : nodes[i].id = id /\
                        \A j \in kept : nodes[j].id = id => j <= i
    IN [id |-> 0, name |-> graph.name,
        start_step_id |-> Connection(nodes, graph.edges, "start", "default"),
        steps |-> [id \in {nodes[i].id : i \in kept} |->
                      StepOfNode(nodes, graph.edges, nodes[last(id)])]]

\* start -> ask -> answer -> end
GraphLinear ==
    [name |-> "g1",
     nodes |-> <<StartNode, GraphNode("ask", "human_inputNode", <<>>),
                 GraphNode("answer", "llm_responseNode", <<>>), EndNode>>,
     edges |-> <<GraphEdge("start", None, "ask"), GraphEdge("ask", None, "answer"),
                 GraphEdge("answer", None, "end")>>]

\* A router whose route a leads to a step and whose route b leads to the end
\* node.
GraphRouterToEnd ==
    [name |-> "g2",
     nodes |-> <<StartNode,
                 GraphNode("route", "intelligent_routerNode", [a |-> END, b |-> END]),
                 GraphNode("answer", "llm_responseNode", <<>>), EndNode>>,
     edges |-> <<GraphEdge("start", None, "route"), GraphEdge("route", "a", "answer"),
                 GraphEdge("route", "b", "end"), GraphEdge("answer", None, "end")>>]

\* A router one of whose routes has no edge.
GraphRouterOpen ==
    [name |-> "g3",
     nodes |-> <<StartNode,
                 GraphNode("route", "intelligent_routerNode", [a |-> END, b |-> END]),
                 GraphNode("answer", "llm_responseNode", <<>>), EndNode>>,
     edges |-> <<GraphEdge("start", None, "route"), GraphEdge("route", "a", "answer"),
                 GraphEdge("answer", None, "end")>>]

\* The start node wired to the end node.
GraphEmpty ==
    [name |-> "g4", nodes |-> <<StartNode, EndNode>>,
     edges |-> <<GraphEdge("start", None, "end")>>]

\* A loop whose body is one step and whose exit is the end node.
GraphLoop ==
    [name |-> "g5",
     nodes |-> <<StartNode, GraphNode("loop", "start_loopNode", <<>>),
                 GraphNode("body", "llm_responseNode", <<>>),
                 GraphNode("el", "end_loopNode", <<>>), EndNode>>,
     edges |-> <<GraphEdge("start", None, "loop"), GraphEdge("loop", "loopBody", "body"),
                 GraphEdge("loop", "onSuccess", "end"), GraphEdge("loop", "onFailure", "end"),
                 GraphEdge("body", None, "el")>>]

\* A loop whose body handle is wired to the end node.
GraphLoopBodyToEnd ==
    [name |-> "g6",
     nodes |-> <<StartNode, GraphNode("loop", "start_loopNode", <<>>), EndNode>>,
     edges |-> <<GraphEdge("start", None, "loop"), GraphEdge("loop", "loopBody", "end")>>]

\* A condition whose branches go to the end node and to a step; the step's
\* failure edge goes to the end node.
GraphCondition ==
    [name |-> "g7",
     nodes |-> <<StartNode, GraphNode("check", "condition_checkNode", <<>>),
                 GraphNode("answer", "llm_responseNode", <<>>), EndNode>>,
     edges |-> <<GraphEdge("start", None, "check"), GraphEdge("check", "onSuccess", "end"),
                 GraphEdge("check", "onFailure", "answer"),
                 GraphEdge("answer", None, "end"),
                 GraphEdge("answer", "onFailure", "end")>>]

\* No edge leaves the start node.
GraphUnconnected ==
    [name |-> "g8",
     nodes |-> <<StartNode, GraphNode("answer", "llm_responseNode", <<>>), EndNode>>,
     edges |-> <<GraphEdge("answer", None, "end")>>]

\* Every edge of the graph targets a node of the graph.
EdgesTargetNodes(graph) ==
    \A i \in 1..Len(graph.edges) :
        \E j \in 1..Len(graph.nodes) : graph.nodes[j].id = graph.edges[i].target

AuthoringGraphs ==
    {g \in {GraphLinear, GraphRouterToEnd, GraphRouterOpen, GraphEmpty, GraphLoop,
             GraphLoopBodyToEnd, GraphCondition, GraphUnconnected} :
        EdgesTargetNodes(g)}

\* ------------------------------------------------------------ storage API
\* A fresh database and no engine call.
InitStorage ==
    /\ workflows = [i \in {} |-> NoWorkflow]
    /\ execution_states = [e \in {} |-> NoState]
    /\ calls = [c \in {} |-> IdleCall]
    /\ next_execution_id = 1
    /\ workflow_seq = 0
    /\ evaluation = NoEvaluation
    /\ data_rows = NoRows

\* The definitions a client saves: two under the name w1, one under w0.
StoredDefinitions == {Workflow1, Workflow1Revised, WorkflowNew}

\* The status values of the execution_states schema.
Statuses == {"paused", "completed", "failed"}

\* The envelopes a client saves: a fresh one and one with an answer.
StoredEnvelopes(eid) ==
    {InitialState(eid, Workflow1, "q", EmptyDict),
     [InitialState(eid, Workflow1, "q", EmptyDict) EXCEPT
        !.collected_inputs = DictSet(EmptyDict, "k1", StrV("yes")),
        !.current_step_id = "work"]}

\* WorkflowStorage.save_execution_state called by a client
StoreExecutionState(eid, wid, status, state) ==
    /\ execution_states' = SaveExecutionState(execution_states, eid, wid, status, state)
    /\ UNCHANGED <<workflows, workflow_seq, calls, next_execution_id>>
    /\ UNCHANGED <<evaluation, data_rows>>

\* WorkflowStorage.delete_execution_state called by a client
RemoveExecutionState(eid) ==
    /\ eid \in DOMAIN execution_states
    /\ execution_states' = DeleteExecutionState(execution_states, eid)
    /\ UNCHANGED <<workflows, workflow_seq, calls, next_execution_id>>
    /\ UNCHANGED <<evaluation, data_rows>>

NextStorage ==
    \/ \E wf \in StoredDefinitions : SaveWorkflow(wf)
    \/ \E wid \in WorkflowIds : DeleteWorkflow(wid)
    \/ \E eid \in 1..MaxExecs, wid \in {1, 2}, status \in Statuses :
            \E state \in StoredEnvelopes(eid) : StoreExecutionState(eid, wid, status, state)
    \/ \E eid \in 1..MaxExecs : RemoveExecutionState(eid)

\* The storage layer driven through its own operations.
SpecStorage == InitStorage /\ [][NextStorage]_vars

\* An author's graph is converted and saved; a graph from_graph rejects is
\* not saved.
SaveGraph(graph) ==
    /\ ~FromGraphRaises(graph)
    /\ SaveWorkflow(FromGraph(graph))

NextGraph ==
    \/ \E graph \in AuthoringGraphs : SaveGraph(graph)
    \/ \E wid \in WorkflowIds : DeleteWorkflow(wid)

\* Graphs converted by from_graph and saved to a fresh database.
SpecGraph == InitStorage /\ [][NextGraph]_vars

\* ------------------------------------------------------------ properties
LastEntry(state) == state.step_history[Len(state.step_history)]

\* Call c produces a suspension response in this step.
SuspensionAcknowledged(c) ==
    /\ calls[c].response.status # "awaiting_input"
    /\ calls'[c].response.status = "awaiting_input"

\* C1: a start or resume answers awaiting_input for an execution id only in a
\* step after which the store holds that id's row with status 'paused' and the
\* envelope (in its JSON form); the response never precedes the commit.
C1_SuspensionCommittedBeforeResponse ==
    [][\A c \in Calls :
        SuspensionAcknowledged(c) =>
            /\ HasPausedState(execution_states', calls'[c].execution_id)
            /\ execution_states'[calls'[c].execution_id].state = JsonState(calls'[c].state)
            /\ calls'[c].response.execution_id = calls'[c].execution_id]_vars

C1_Witness ==
    \E c \in Calls :
        /\ calls[c].pc = "done" /\ calls[c].op = "resume"
        /\ calls[c].response.status = "awaiting_input"
        /\ HasPausedState(execution_states, calls[c].execution_id)

\* C2: a resume for an execution id without a 'paused' row answers failed at
\* once, dispatches no handler and changes neither table.
C2_ResumeWithoutPausedRowFails ==
    [][\A c \in Calls :
        (/\ calls[c].pc = "idle"
         /\ calls'[c].op = "resume"
         /\ ~HasPausedState(execution_states, calls'[c].execution_id)) =>
            /\ calls'[c].pc = "done"
            /\ calls'[c].response.status = "failed"
            /\ calls'[c].ghost.dispatched = 0
            /\ calls'[c].state = NoState
            /\ execution_states' = execution_states
            /\ workflows' = workflows]_vars

C2_Witness ==
    \E c \in Calls :
        /\ calls[c].pc = "done" /\ calls[c].op = "resume"
        /\ calls[c].response = [status |-> "failed", error |-> "execution_not_found"]
        /\ calls[c].execution_id < next_execution_id
        /\ calls[c].execution_id \notin DOMAIN execution_states

\* C3: single writer per execution: no two concurrent resumes that loaded the
\* same paused envelope of one execution id both dispatch a step.
C3_SingleWriterPerExecution ==
    \A c1, c2 \in Calls :
        (/\ c1 # c2
         /\ calls[c1].op = "resume" /\ calls[c2].op = "resume"
         /\ calls[c1].execution_id = calls[c2].execution_id
         /\ calls[c1].ghost.loaded_len > 0
         /\ calls[c1].ghost.loaded_len = calls[c2].ghost.loaded_len) =>
            ~(calls[c1].ghost.dispatched >= 1 /\ calls[c2].ghost.dispatched >= 1)

\* C4: when a start or resume of an execution answers completed or failed, no
\* execution_states row of its execution id is left in the store.
C4_NoRowAfterTerminalResponse ==
    [][\A c \in Calls :
        (/\ calls[c].pc # "done" /\ calls'[c].pc = "done"
         /\ calls'[c].response.status \in {"completed", "failed"}
         /\ calls'[c].execution_id # 0) =>
            calls'[c].execution_id \notin DOMAIN execution_states']_vars

\* C5: once delete_workflow(w) has removed workflow w, no execution_states row
\* with workflow_id w is left.
C5_DeleteWorkflowCascades ==
    [][\A wid \in DOMAIN SavedWorkflows :
        (wid \in DOMAIN workflows /\ wid \notin DOMAIN workflows') =>
            \A e \in DOMAIN execution_states' :
                execution_states'[e].workflow_id # wid]_vars

\* The running call c suspends in this step: calls[c].state is the envelope
\* its handler was given.
Suspends(c) == calls[c].pc = "running" /\ SuspensionAcknowledged(c)

\* C6 as stated: the persisted envelope is, value for value, the envelope
\* given to the suspending handler plus the pause marker.
C6_PersistedEqualsPresented ==
    [][\A c \in Calls :
        Suspends(c) =>
            /\ HasPausedState(execution_states', calls'[c].execution_id)
            /\ execution_states'[calls'[c].execution_id].state =
                    [calls[c].state EXCEPT
                        !.step_history = Append(@, LastEntry(calls'[c].state))]]_vars

\* C6 amended: the persisted envelope is the JSON form (json.dumps with
\* default=str, read back) of the envelope given to the suspending handler
\* plus exactly one history entry, the pause marker; in memory the envelope
\* changes by that entry only.
C6_PersistedIsJsonOfPresented ==
    [][\A c \in Calls :
        Suspends(c) =>
            LET marker == LastEntry(calls'[c].state)
                expected == [calls[c].state EXCEPT !.step_history = Append(@, marker)]
            IN /\ marker.type \in {"pause_awaiting_input", "pause_awaiting_file_upload"}
               /\ marker.step_id = calls[c].state.current_step_id
               /\ calls'[c].state = expected
               /\ HasPausedState(execution_states', calls'[c].execution_id)
               /\ execution_states'[calls'[c].execution_id].state = JsonState(expected)]_vars

C6_Witness ==
    \E c \in Calls :
        /\ calls[c].pc = "done" /\ calls[c].response.status = "awaiting_input"
        /\ HasPausedState(execution_states, calls[c].execution_id)
        /\ execution_states[calls[c].execution_id].state = JsonState(calls[c].state)
        /\ execution_states[calls[c].execution_id].state # calls[c].state

StepOrEnd(state) ==
    state.current_step_id \in DOMAIN SavedWorkflows[state.workflow_id].steps \cup {END}

\* C7: between driver iterations, in every persisted paused envelope and in
\* the envelope at completion, current_step_id is END or a step of the
\* execution's workflow.
C7_CurrentStepIsStepOrEnd ==
    /\ \A c \in Calls : calls[c].state # NoState => StepOrEnd(calls[c].state)
    /\ \A e \in DOMAIN execution_states : StepOrEnd(execution_states[e].state)

C7_Witness ==
    \E c \in Calls :
        /\ calls[c].op = "resume" /\ calls[c].response.status = "completed"
        /\ calls[c].state.current_step_id = END
        /\ calls[c].ghost.dispatched >= 1

JsonHistory(state) == [i \in DOMAIN state.step_history |-> JsonEntry(state.step_history[i])]

\* C9: step_history of one execution is append-only: any two values it takes
\* (here, in two calls that hold the execution's envelope) are a prefix one of
\* the other.
C9_HistoryAppendOnly ==
    \A c1, c2 \in Calls :
        (/\ calls[c1].state # NoState /\ calls[c2].state # NoState
         /\ calls[c1].state.execution_id = calls[c2].state.execution_id) =>
            \/ IsPrefix(JsonHistory(calls[c1].state), JsonHistory(calls[c2].state))
            \/ IsPrefix(JsonHistory(calls[c2].state), JsonHistory(calls[c1].state))

\* The history entry is a step's successful result with an output, and the
\* step has an output_key.
IsStoredResult(wf, entry) ==
    /\ "success" \in DOMAIN entry /\ entry.success
    /\ "output" \in DOMAIN entry
    /\ entry.type # "end_loop"
    /\ "next_step_override" \notin DOMAIN entry
    /\ wf.steps[entry.step_id].output_key # None

\* C10: once a successful result with an output of a step with output_key is
\* the last history entry, and so before any next handler is dispatched,
\* collected_inputs[output_key] is that output and current_step_id is the
\* step's on_success.
C10_OutputStoredBeforeNextStep ==
    \A c \in Calls :
        (/\ calls[c].workflow # NoWorkflow
         /\ calls[c].state.step_history # <<>>
         /\ IsStoredResult(calls[c].workflow, LastEntry(calls[c].state))) =>
            LET entry == LastEntry(calls[c].state)
                step == calls[c].workflow.steps[entry.step_id]
            IN /\ step.output_key \in DOMAIN calls[c].state.collected_inputs
               /\ calls[c].state.collected_inputs[step.output_key] = entry.output
               /\ calls[c].state.current_step_id = step.on_success

C10_Witness ==
    \E c \in Calls :
        /\ calls[c].pc = "running"
        /\ calls[c].state.step_history # <<>>
        /\ IsStoredResult(calls[c].workflow, LastEntry(calls[c].state))
        /\ calls[c].state.current_step_id # END
        /\ calls[c].state.collected_inputs[
                calls[c].workflow.steps[LastEntry(calls[c].state).step_id].output_key]
            = LastEntry(calls[c].state).output

\* The history entry is a step's failure result.
IsFailureResult(entry) == "success" \in DOMAIN entry /\ ~entry.success

\* Call c is at step target, or in the body of the loop that target starts
\* (a start_loop appends nothing when it enters its body).
AtStepOrInItsLoop(c, target) ==
    \/ calls[c].state.current_step_id = target
    \/ /\ calls[c].loop_stack # <<>>
       /\ calls[c].loop_stack[Len(calls[c].loop_stack)] = target

\* C11: once a failure result is the last history entry, the run is at the
\* step's on_failure when it has one; otherwise the call has ended failed with
\* the error the step reported, at the failed step, and runs nothing more.
C11_FailureFollowsOnFailureOrTerminates ==
    \A c \in DOMAIN calls :
        (/\ calls[c].workflow # NoWorkflow
         /\ calls[c].state.step_history # <<>>
         /\ IsFailureResult(LastEntry(calls[c].state))) =>
            LET entry == LastEntry(calls[c].state)
                step == calls[c].workflow.steps[entry.step_id]
            IN IF step.on_failure # None
               THEN /\ AtStepOrInItsLoop(c, step.on_failure)
                    /\ calls[c].response.status # "failed"
               ELSE /\ calls[c].pc = "done"
                    /\ calls[c].response = [status |-> "failed", error |-> entry.error]
                    /\ calls[c].state.current_step_id = entry.step_id

C11_Witness ==
    \E c \in DOMAIN calls :
        /\ calls[c].pc = "running"
        /\ calls[c].state.step_history # <<>>
        /\ IsFailureResult(LastEntry(calls[c].state))
        /\ calls[c].workflow.steps[LastEntry(calls[c].state).step_id].on_failure
                = calls[c].state.current_step_id

\* Call c takes a step of its own in this transition.
CallSteps(c) == calls'[c] # calls[c]

\* C12: a driver iteration that finds current_step_id neither END nor a step
\* of the workflow ends the call failed (step not found), dispatches no
\* handler and leaves collected_inputs and step_history as they are.
C12_UnknownStepFailsWithoutDispatch ==
    [][\A c \in DOMAIN calls :
        (/\ calls[c].pc = "running"
         /\ calls[c].state.current_step_id
                \notin DOMAIN calls[c].workflow.steps \cup {END}
         /\ CallSteps(c)) =>
            /\ calls'[c].pc = "done"
            /\ calls'[c].response = [status |-> "failed", error |-> "step_not_found"]
            /\ calls'[c].ghost.dispatched = calls[c].ghost.dispatched
            /\ calls'[c].state.collected_inputs = calls[c].state.collected_inputs
            /\ calls'[c].state.step_history = calls[c].state.step_history]_vars

\* A history entry that is a successful handler result.
IsSuccessResult(entry) == "success" \in DOMAIN entry /\ entry.success

AtStepOfType(c, type) ==
    /\ calls[c].pc = "running"
    /\ HasStep(calls[c].workflow, calls[c].state.current_step_id)
    /\ calls[c].workflow.steps[calls[c].state.current_step_id].action_type = type

CurrentStep(c) == calls[c].workflow.steps[calls[c].state.current_step_id]

\* The start_loop a running call is at emits a Loop-body-start result.
EmitsLoopBodyStart(c) ==
    /\ AtStepOfType(c, "start_loop")
    /\ \E o \in StartLoop(CurrentStep(c), calls[c].state) :
           "status" \in DOMAIN o.result /\ o.result.status = "start_loop_iteration"

HasType(entry, type) == "type" \in DOMAIN entry /\ entry.type = type

\* The outputs of the end_loop results of a history, in order, since the last
\* loop completion recorded in it.
RECURSIVE IterationOutputs(_)
IterationOutputs(h) ==
    IF h = <<>> THEN <<>>
    ELSE LET e == h[Len(h)]
             rest == SubSeq(h, 1, Len(h) - 1)
         IN IF HasType(e, "start_loop_complete") THEN <<>>
            ELSE IF HasType(e, "end_loop") THEN Append(IterationOutputs(rest), e.output)
            ELSE IterationOutputs(rest)

\* C16: the success record of a completed start_loop over n items carries
\* exactly n values, the i-th being the output of the i-th iteration's
\* end_loop result.
C16_CompletedLoopCollectsEveryIteration ==
    \A c \in DOMAIN calls :
        (calls[c].state.step_history # <<>>
         /\ HasType(LastEntry(calls[c].state), "start_loop_complete")) =>
            LET h == calls[c].state.step_history
                entry == h[Len(h)]
                step == calls[c].workflow.steps[entry.step_id]
                collection == GetValueFromState(step.input_collection_variable,
                                                calls[c].state)
            IN /\ Len(entry.output.l) = Len(collection.l)
               /\ entry.output = ListV(IterationOutputs(SubSeq(h, 1, Len(h) - 1)))

\* The start_loop steps of a call's workflow.
StartLoopSteps(c) ==
    {calls[c].workflow.steps[id] : id \in
        {i \in DOMAIN calls[c].workflow.steps :
            calls[c].workflow.steps[i].action_type = "start_loop"}}

\* The list a start_loop's input collection resolves to in the call's state.
ResolvedCollection(c, step) ==
    GetValueFromState(step.input_collection_variable, calls[c].state)

OnStack(c, id) == \E i \in 1..Len(calls[c].loop_stack) : calls[c].loop_stack[i] = id

HandlerSuspends(c) ==
    /\ calls[c].pc = "running"
    /\ HasStep(calls[c].workflow, calls[c].state.current_step_id)
    /\ \A o \in ExecuteStepHandler(CurrentStep(c), calls[c].state) :
           /\ "status" \in DOMAIN o.result
           /\ o.result.status \in {"awaiting_input", "awaiting_file_upload"}

Resumes(c) ==
    /\ calls[c].pc = "idle"
    /\ calls'[c].pc = "running"
    /\ calls'[c].op = "resume"

\* The envelope a resuming call loaded, and the step it was paused at.
LoadedState(c) == execution_states[calls'[c].execution_id].state
PausedStep(c) == workflows[LoadedState(c).workflow_id].steps[LoadedState(c).current_step_id]

\* The user value is written under the paused step's output_key and one
\* human_input_provided marker is appended.
ValueWrittenAndMarked(c) ==
    \E u \in UserInputs :
        /\ calls'[c].state.collected_inputs =
               DictSet(LoadedState(c).collected_inputs, PausedStep(c).output_key, u)
        /\ Len(calls'[c].state.step_history) = Len(LoadedState(c).step_history) + 1
        /\ SubSeq(calls'[c].state.step_history, 1, Len(LoadedState(c).step_history))
               = LoadedState(c).step_history
        /\ HasType(LastEntry(calls'[c].state), "human_input_provided")
        /\ LastEntry(calls'[c].state).step_id = PausedStep(c).step_id

\* The resumed call goes on at the paused step's on_success and has
\* dispatched no handler yet.
AdvancedWithoutDispatch(c) ==
    /\ calls'[c].state.current_step_id = PausedStep(c).on_success
    /\ calls'[c].ghost.dispatched = 0

\* C20 as stated: every resumption writes the user value under the paused
\* step's output_key, appends exactly one human_input_provided marker, moves
\* to the paused step's on_success and dispatches nothing before the driver
\* loop is re-entered.
C20_ResumeWritesMarksAdvances ==
    [][\A c \in DOMAIN calls :
        Resumes(c) => ValueWrittenAndMarked(c) /\ AdvancedWithoutDispatch(c)]_vars

\* C20, amended: the write and the marker happen when the paused step has an
\* output_key; when it has none, collected_inputs and step_history are left
\* as loaded. In both cases the call moves to the paused step's on_success
\* and dispatches nothing before the driver loop is re-entered.
C20_ResumeWritesMarksWhenKeyedAndAdvances ==
    [][\A c \in DOMAIN calls :
        Resumes(c) =>
            /\ IF PausedStep(c).output_key # None
               THEN ValueWrittenAndMarked(c)
               ELSE /\ calls'[c].state.collected_inputs = LoadedState(c).collected_inputs
                    /\ calls'[c].state.step_history = LoadedState(c).step_history
            /\ AdvancedWithoutDispatch(c)]_vars

C20_Witness ==
    \E c \in DOMAIN calls :
        /\ calls[c].pc = "running"
        /\ calls[c].op = "resume"
        /\ calls[c].ghost.dispatched = 0
        /\ calls[c].state.step_history # <<>>
        /\ HasType(LastEntry(calls[c].state), "human_input_provided")
        /\ LET step == calls[c].workflow.steps[LastEntry(calls[c].state).step_id]
           IN /\ step.output_key # None
              /\ calls[c].state.collected_inputs[step.output_key] \in UserInputs
              /\ calls[c].state.current_step_id = step.on_success
              /\ step.on_success # step.step_id

\* A resume is answered in this transition without entering the driver loop.
ResumeAnswered(c) ==
    /\ calls[c].pc = "idle"
    /\ calls'[c].pc = "done"
    /\ calls'[c].op = "resume"

\* The paused envelope of execution eid names a step its workflow, which is
\* still stored, does not have.
PausedAtMissingStep(eid) ==
    /\ HasPausedState(execution_states, eid)
    /\ execution_states[eid].state.workflow_id \in DOMAIN workflows
    /\ ~HasStep(workflows[execution_states[eid].state.workflow_id],
                execution_states[eid].state.current_step_id)

\* C21: a resume that finds a paused envelope whose current_step_id is not a
\* step of the workflow is answered failed and deletes the paused envelope, so
\* that the execution has no paused state afterwards.
C21_CorruptResumeDeletesEnvelope ==
    [][\A c \in DOMAIN calls :
        (ResumeAnswered(c) /\ PausedAtMissingStep(calls'[c].execution_id)) =>
            /\ calls'[c].response.status = "failed"
            /\ ~HasPausedState(execution_states', calls'[c].execution_id)]_vars

\* The outcomes of the workflow_call step a running call is at.
CallOutcomes(c) == WorkflowCall(CurrentStep(c), calls[c].state)

\* The child of the workflow_call step a running call is at suspends.
ChildSuspends(c) ==
    /\ AtStepOfType(c, "workflow_call")
    /\ \A o \in CallOutcomes(c) :
           o.children # <<>> /\ o.children[1].response.status = "awaiting_input"

\* C22: a workflow_call whose child suspends gives the parent a failure
\* result, so the parent follows on_failure or ends failed; no workflow_call
\* step makes the parent answer awaiting_input.
C22_ChildSuspensionIsParentFailure ==
    [][\A c \in DOMAIN calls :
        (AtStepOfType(c, "workflow_call") /\ CallSteps(c)) =>
            /\ calls'[c].response.status # "awaiting_input"
            /\ ChildSuspends(c) =>
                   LET entry == LastEntry(calls'[c].state)
                       step == CurrentStep(c)
                   IN /\ Len(calls'[c].state.step_history)
                             = Len(calls[c].state.step_history) + 1
                      /\ IsFailureResult(entry) /\ entry.step_id = step.step_id
                      /\ IF step.on_failure # None
                         THEN /\ calls'[c].pc = "running"
                              /\ calls'[c].state.current_step_id = step.on_failure
                         ELSE /\ calls'[c].pc = "done"
                              /\ calls'[c].response.status = "failed"]_vars

C22_Witness ==
    \E c \in DOMAIN calls :
        /\ calls[c].pc = "running"
        /\ calls[c].state.step_history # <<>>
        /\ IsFailureResult(LastEntry(calls[c].state))
        /\ LastEntry(calls[c].state).error = "sub_workflow_paused"
        /\ calls[c].workflow.steps[LastEntry(calls[c].state).step_id].action_type
               = "workflow_call"
        /\ calls[c].state.current_step_id = "fallback"

\* The envelope a child run of the given outcome started from is fresh.
ChildEnvelopeIsFresh(c, o) ==
    LET step == CurrentStep(c)
        run == o.children[1]
        child == workflows[step.target_workflow_id]
        mapped == FillJsonTemplate(step.input_mappings, calls[c].state)
    IN /\ run.execution_id # calls[c].execution_id
       /\ run.execution_id \notin DOMAIN execution_states
       /\ run.initial =
            [execution_id |-> run.execution_id, workflow_id |-> child.id,
             query |-> IF "query" \in DOMAIN mapped THEN mapped["query"].s
                       ELSE calls[c].state.query,
             initial_context |-> mapped, collected_inputs |-> EmptyDict,
             step_history |-> <<>>, current_step_id |-> child.start_step_id,
             final_response |-> NoneV]

NoMatchAnswered(c) ==
    /\ calls[c].pc = "idle"
    /\ calls'[c].pc = "done"
    /\ calls'[c].response = [status |-> "failed", error |-> "no_matching_workflow"]

\* C24: the router matches no workflow when the reply is NONE or a name no
\* stored workflow has, and a routed start that matched none is answered
\* failed without an envelope, a dispatch or a write to execution_states.
C24_NoMatchStartsNothing ==
    [][/\ \A reply \in RouterReplies :
             (reply = "NONE" \/ ~HasWorkflowName(workflows, reply)) =>
                 FindMatchingWorkflow(workflows, reply) = 0
       /\ \A c \in DOMAIN calls :
             NoMatchAnswered(c) =>
                 /\ calls'[c].state = NoState
                 /\ calls'[c].execution_id = 0
                 /\ calls'[c].ghost.dispatched = 0
                 /\ execution_states' = execution_states
                 /\ next_execution_id' = next_execution_id]_vars

C24_Witness ==
    \E c \in DOMAIN calls :
        /\ calls[c].pc = "done"
        /\ calls[c].op = "start"
        /\ calls[c].response = [status |-> "failed", error |-> "no_matching_workflow"]
        /\ HasWorkflowName(workflows, "w1")
        /\ ~HasWorkflowName(workflows, "nobody")
        /\ calls[c].state = NoState

\* ------------------------------------------------------------ C25
\* The action types whose handlers suspend.
SuspendingActionTypes == {"human_input", "file_ingestion", "file_storage"}

\* The paused envelope of execution eid names a step of its stored workflow
\* whose action type suspends.
PausedAtSuspendingStep(eid) ==
    LET row == execution_states[eid]
    IN /\ row.state.workflow_id \in DOMAIN workflows
       /\ HasStep(workflows[row.state.workflow_id], row.state.current_step_id)
       /\ workflows[row.state.workflow_id].steps[row.state.current_step_id].action_type
              \in SuspendingActionTypes

AnsweredWithSuspension(c) ==
    /\ calls[c].pc # "done"
    /\ calls'[c].pc = "done"
    /\ calls'[c].response.status = "awaiting_input"

\* The row of execution eid is written in this transition.
NewlyPersisted(eid) ==
    \/ eid \notin DOMAIN execution_states
    \/ execution_states'[eid] # execution_states[eid]

\* The workflow definitions executions run in this transition: those the
\* calls loaded and those a sub-workflow call loads from the table.
RunningDefinitions ==
    {calls[c].workflow : c \in DOMAIN calls} \cup {workflows[w] : w \in DOMAIN workflows}

CompletedShape(r) == r.status = "completed" /\ DOMAIN r = {"status", "response"}
FailedShape(r) == r.status = "failed" /\ DOMAIN r = {"status", "error"}

\* A suspension response whose fixed fields are keys, with the upload limits
\* exactly when it asks for files.
SuspensionShape(r, keys) ==
    /\ r.status = "awaiting_input"
    /\ "pause_type" \in DOMAIN r
    /\ \/ r.pause_type = "awaiting_input" /\ DOMAIN r = keys
       \/ /\ r.pause_type = "awaiting_file_upload"
          /\ DOMAIN r = keys \cup {"allowed_file_types", "max_files"}

\* C26 as stated: every response of start and resume has status and is
\* completed with response, failed with error, or a suspension carrying
\* execution_id, response, pause_type and output_key (plus allowed_file_types
\* and max_files for file uploads).
C26_ResponseShapesWithOutputKey ==
    \A c \in DOMAIN calls :
        calls[c].pc = "done" =>
            \/ CompletedShape(calls[c].response)
            \/ FailedShape(calls[c].response)
            \/ SuspensionShape(calls[c].response,
                   {"status", "execution_id", "response", "pause_type", "output_key"})

\* C26: every response of start and resume has status and is completed with
\* response, failed with error, or a suspension (status awaiting_input)
\* carrying execution_id, response and pause_type, plus allowed_file_types and
\* max_files for file uploads; the suspension response has no output_key.
C26_ResponseShapes ==
    \A c \in DOMAIN calls :
        calls[c].pc = "done" =>
            \/ CompletedShape(calls[c].response)
            \/ FailedShape(calls[c].response)
            \/ SuspensionShape(calls[c].response,
                   {"status", "execution_id", "response", "pause_type"})

C26_Witness ==
    \E c \in DOMAIN calls :
        /\ calls[c].pc = "done"
        /\ calls[c].response.status = "awaiting_input"
        /\ calls[c].response.pause_type = "awaiting_file_upload"
        /\ "max_files" \in DOMAIN calls[c].response

\* ------------------------------------------------------------ C27
\* Call c is answered completed in this transition.
Completes(c) ==
    /\ calls[c].pc = "running"
    /\ calls'[c].pc = "done"
    /\ calls'[c].response.status = "completed"

\* The last history entry of call c is the successful result of an
\* llm_response step whose on_success is END.
EndedByLlmResponse(c) ==
    LET h == calls[c].state.step_history
    IN /\ h # <<>>
       /\ IsSuccessResult(h[Len(h)])
       /\ HasType(h[Len(h)], "llm_response")
       /\ HasStep(calls[c].workflow, h[Len(h)].step_id)
       /\ calls[c].workflow.steps[h[Len(h)].step_id].on_success = END
       /\ calls[c].workflow.steps[h[Len(h)].step_id].action_type = "llm_response"

UniqueNames(table) ==
    \A i, j \in DOMAIN table : table[i].name = table[j].name => i = j

\* C28: save_workflow is an upsert by name. After any saves and deletes the
\* workflows table has at most one row per name; saving a name that exists
\* updates that row's fields and yields the id the row had; saving a new name
\* creates a row with a new id; no other row changes.
C28_SaveWorkflowUpsertsByName ==
    [][/\ UniqueNames(workflows')
       /\ \A wf \in StoredDefinitions :
            SaveWorkflow(wf) =>
                LET id == WorkflowIdByName(workflows', wf.name)
                IN /\ HasWorkflowName(workflows', wf.name)
                   /\ workflows'[id] = [wf EXCEPT !.id = id]
                   /\ \A x \in DOMAIN workflows : x # id => workflows'[x] = workflows[x]
                   /\ IF HasWorkflowName(workflows, wf.name)
                      THEN /\ id = WorkflowIdByName(workflows, wf.name)
                           /\ DOMAIN workflows' = DOMAIN workflows
                      ELSE /\ id \notin DOMAIN workflows
                           /\ \A x \in DOMAIN workflows : x < id
                           /\ DOMAIN workflows' = DOMAIN workflows \cup {id}]_vars

\* w1 was saved, saved again with other fields, and then w0 was saved.
C28_Witness ==
    /\ DOMAIN workflows = {1, 3}
    /\ workflows[1] = [Workflow1Revised EXCEPT !.id = 1]
    /\ workflows[3] = [WorkflowNew EXCEPT !.id = 3]

\* ------------------------------------------------------------ C29
\* C29: save_execution_state inserts or updates by execution_id: after a save
\* the table has the one row of that execution_id, with the saved status and
\* the saved envelope (as JSON); a row that existed keeps its workflow_id, and
\* no other row changes. get_execution_state returns the envelope of a row
\* whose status is 'paused' and nothing for any other row or for no row.
C29_SaveExecutionStateUpsertsAndGetReadsPaused ==
    [][/\ \A eid \in 1..MaxExecs, wid \in {1, 2}, status \in Statuses :
            \A state \in StoredEnvelopes(eid) :
                StoreExecutionState(eid, wid, status, state) =>
                    /\ DOMAIN execution_states' = DOMAIN execution_states \cup {eid}
                    /\ execution_states'[eid].status = status
                    /\ execution_states'[eid].state = JsonState(state)
                    /\ execution_states'[eid].workflow_id =
                           IF eid \in DOMAIN execution_states
                           THEN execution_states[eid].workflow_id ELSE wid
                    /\ \A x \in DOMAIN execution_states :
                           x # eid => execution_states'[x] = execution_states[x]
       /\ \A eid \in 1..(MaxExecs + 1) :
            IF eid \in DOMAIN execution_states' /\ execution_states'[eid].status = "paused"
            THEN GetExecutionState(execution_states', eid) = execution_states'[eid].state
            ELSE GetExecutionState(execution_states', eid) = None]_vars

\* A paused row was saved again as completed with another envelope: the row
\* is still there and the lookup returns nothing.
C29_Witness ==
    /\ 1 \in DOMAIN execution_states
    /\ execution_states[1].status = "completed"
    /\ execution_states[1].workflow_id = 1
    /\ execution_states[1].state.current_step_id = "work"
    /\ GetExecutionState(execution_states, 1) = None

\* ------------------------------------------------------------ C30
\* A target is END or a step of the workflow.
IsEndOrStep(wf, target) == target = END \/ target \in DOMAIN wf.steps

\* The targets from_graph normalises are END or steps; on_failure and
\* loop_body_start_step_id may be absent.
NormalisedTargetsAreEndOrSteps(wf) ==
    \A sid \in DOMAIN wf.steps :
        /\ IsEndOrStep(wf, wf.steps[sid].on_success)
        /\ wf.steps[sid].on_failure = None \/ IsEndOrStep(wf, wf.steps[sid].on_failure)
        /\ \/ wf.steps[sid].loop_body_start_step_id = None
           \/ IsEndOrStep(wf, wf.steps[sid].loop_body_start_step_id)

\* C30: for an authoring graph in which every edge targets a node of the
\* graph, the workflow from_graph produces has start_step_id and every edge
\* target (on_success, on_failure, loop_body_start_step_id and every value of
\* routes) equal to END or to a key of steps; an edge into the end node is END
\* and never the id 'end'.
C30_TargetsAreEndOrSteps ==
    \A id \in DOMAIN workflows :
        /\ IsEndOrStep(workflows[id], workflows[id].start_step_id)
        /\ NormalisedTargetsAreEndOrSteps(workflows[id])
        /\ \A sid \in DOMAIN workflows[id].steps :
              \A r \in DOMAIN workflows[id].steps[sid].routes :
                  IsEndOrStep(workflows[id], workflows[id].steps[sid].routes[r])

\* ------------------------------------------------------------ graph API
\* node.data.get(key, default)
DataGet(data, key, default) == IF key \in DOMAIN data THEN data[key] ELSE default

\* A node whose data block carries its action_type.
ApiNode(id, action_type) ==
    [id |-> id, type |-> action_type \o "Node", data |-> [action_type |-> action_type]]

\* The authoring JSON of a graph, and the raw_definition of a Workflow that
\* was given none (the empty string).
AuthoringJson(graph) == [text |-> "json", nodes |-> graph.nodes, edges |-> graph.edges]
NoRawDefinition == [text |-> "", nodes |-> <<>>, edges |-> <<>>]

\* convert_graph_to_workflow: the start node is a startNode no edge targets.
ApiStartNodes(graph) ==
    {i \in 1..Len(graph.nodes) :
        /\ graph.nodes[i].type = "startNode"
        /\ \A e \in 1..Len(graph.edges) : graph.edges[e].target # graph.nodes[i].id}

\* The first element of a non-empty set of indices.
FirstOf(indices) == CHOOSE i \in indices : \A j \in indices : i <= j

\* The edges that leave the first start node, in list order.
ApiStartEdges(graph) ==
    {e \in 1..Len(graph.edges) :
        graph.edges[e].source = graph.nodes[FirstOf(ApiStartNodes(graph))].id}

\* convert_graph_to_workflow raises ValueError: no start node, or no edge out
\* of it.
ConvertGraphRaises(graph) ==
    \/ ApiStartNodes(graph) = {}
    \/ ApiStartEdges(graph) = {}

\* The loop over a node's edges: every edge of a node that is not a condition
\* sets on_success, whatever its handle; an edge into 'end' becomes END.
RECURSIVE ApiTargets(_, _, _, _)
ApiTargets(node, edges, i, acc) ==
    IF i > Len(edges) THEN acc
    ELSE IF edges[i].source # node.id THEN ApiTargets(node, edges, i + 1, acc)
    ELSE LET target == IF edges[i].target = "end" THEN END ELSE edges[i].target
         IN IF edges[i].sourceHandle = "onSuccess" \/ node.type # "condition_checkNode"
            THEN ApiTargets(node, edges, i + 1, [acc EXCEPT !.on_success = target])
            ELSE IF edges[i].sourceHandle = "onFailure"
            THEN ApiTargets(node, edges, i + 1, [acc EXCEPT !.on_failure = target])
            ELSE ApiTargets(node, edges, i + 1, acc)

\* convert_graph_to_workflow, the step of one node
ApiStepOfNode(graph, node) ==
    LET targets == ApiTargets(node, graph.edges, 1, [on_success |-> END, on_failure |-> None])
    IN [Step(node.id, DataGet(node.data, "action_type", "")) EXCEPT
            !.prompt_template = DataGet(node.data, "prompt_template", ""),
            !.output_key = DataGet(node.data, "output_key", None),
            !.on_success = targets.on_success,
            !.on_failure = targets.on_failure]

\* convert_graph_to_workflow: start_step_id is set from the start edge, and
\* then again by Workflow.add_step when the first step is added; no
\* raw_definition is given.
ConvertGraphToWorkflow(graph) ==
    LET nodes == graph.nodes
        kept == {i \in 1..Len(nodes) : nodes[i].type \notin {"startNode", "endNode"}}
        last(id) == CHOOSE i \in kept : nodes[i].id = id /\
                        \A j \in kept : nodes[j].id = id => j <= i
    IN [id |-> 0, name |-> graph.name,
        start_step_id |-> IF kept = {}
                          THEN graph.edges[FirstOf(ApiStartEdges(graph))].target
                          ELSE nodes[FirstOf(kept)].id,
        steps |-> [id \in {nodes[i].id : i \in kept} |->
                      ApiStepOfNode(graph, nodes[last(id)])],
        raw_definition |-> NoRawDefinition]

\* The target of an edge of the returned graph: END is the end node.
UiTarget(target) == IF target = END THEN "end" ELSE target

\* convert_workflow_to_graph: a node per step between the start and the end
\* node; the start edge, a success edge per step and a failure edge per step
\* that has on_failure. Nodes and edges are compared as sets.
ConvertWorkflowToGraph(wf) ==
    [nodes |-> {[id |-> "start", type |-> "startNode"], [id |-> "end", type |-> "endNode"]}
               \cup {[id |-> wf.steps[s].step_id, type |-> wf.steps[s].action_type \o "Node"]
                        : s \in DOMAIN wf.steps},
     edges |-> (IF wf.start_step_id \notin {None, ""}
                THEN {GraphEdge("start", None, wf.start_step_id)} ELSE {})
               \cup {GraphEdge(wf.steps[s].step_id,
                               IF wf.steps[s].action_type = "condition_check"
                               THEN "onSuccess" ELSE None,
                               UiTarget(wf.steps[s].on_success))
                        : s \in {x \in DOMAIN wf.steps : wf.steps[x].on_success \notin {None, ""}}}
               \cup {GraphEdge(wf.steps[s].step_id, "onFailure",
                               UiTarget(wf.steps[s].on_failure))
                        : s \in {x \in DOMAIN wf.steps : wf.steps[x].on_failure \notin {None, ""}}}]

\* GET /api/workflows/{id}: the stored workflow as a graph
GetWorkflowGraph(table, wid) == ConvertWorkflowToGraph(table[wid])

\* start -> ask -> answer -> end
ApiGraphLinear ==
    [name |-> "a1",
     nodes |-> <<StartNode, ApiNode("ask", "human_input"),
                 ApiNode("answer", "llm_response"), EndNode>>,
     edges |-> <<GraphEdge("start", None, "ask"), GraphEdge("ask", None, "answer"),
                 GraphEdge("answer", None, "end")>>]

\* The same steps, the answer node listed before the ask node.
ApiGraphReordered ==
    [name |-> "a2",
     nodes |-> <<StartNode, ApiNode("answer", "llm_response"),
                 ApiNode("ask", "human_input"), EndNode>>,
     edges |-> <<GraphEdge("start", None, "ask"), GraphEdge("ask", None, "answer"),
                 GraphEdge("answer", None, "end")>>]

\* The answer step has a failure edge back to the ask step.
ApiGraphRetry ==
    [name |-> "a3",
     nodes |-> <<StartNode, ApiNode("ask", "human_input"),
                 ApiNode("answer", "llm_response"), EndNode>>,
     edges |-> <<GraphEdge("start", None, "ask"), GraphEdge("ask", None, "answer"),
                 GraphEdge("answer", None, "end"),
                 GraphEdge("answer", "onFailure", "ask")>>]

\* A condition with both branches.
ApiGraphCondition ==
    [name |-> "a4",
     nodes |-> <<StartNode, ApiNode("check", "condition_check"),
                 ApiNode("answer", "llm_response"), EndNode>>,
     edges |-> <<GraphEdge("start", None, "check"), GraphEdge("check", "onSuccess", "end"),
                 GraphEdge("check", "onFailure", "answer"),
                 GraphEdge("answer", None, "end")>>]

\* No edge leaves the start node.
ApiGraphUnconnected ==
    [name |-> "a5",
     nodes |-> <<StartNode, ApiNode("answer", "llm_response"), EndNode>>,
     edges |-> <<GraphEdge("answer", None, "end")>>]

\* start -> answer -> end
ApiGraphSingle ==
    [name |-> "a6",
     nodes |-> <<StartNode, ApiNode("answer", "llm_response"), EndNode>>,
     edges |-> <<GraphEdge("start", None, "answer"), GraphEdge("answer", None, "end")>>]

ApiGraphs ==
    {ApiGraphLinear, ApiGraphReordered, ApiGraphRetry, ApiGraphCondition,
     ApiGraphUnconnected, ApiGraphSingle}

\* POST /api/workflows: the graph is converted and saved; a graph the
\* conversion rejects is answered with an error and not saved.
SaveWorkflowGraph(graph) ==
    /\ ~ConvertGraphRaises(graph)
    /\ SaveWorkflow(ConvertGraphToWorkflow(graph))

NextApi ==
    \/ \E graph \in ApiGraphs : SaveWorkflowGraph(graph)
    \/ \E wid \in WorkflowIds : DeleteWorkflow(wid)

\* ------------------------------------------------------------ template evaluation
\* The templates evaluated: none, plain text, one placeholder alone and
\* between blanks, placeholders in text, two placeholders, the query.
Templates ==
    {<<>>,
     <<TextToken("hi")>>,
     <<PlaceholderToken("input", "k1")>>,
     <<BlankToken, PlaceholderToken("input", "k1"), BlankToken>>,
     <<PlaceholderToken("context", "one")>>,
     <<TextToken("hi"), BlankToken, PlaceholderToken("input", "k1")>>,
     <<PlaceholderToken("input", "k1"), TextToken("!")>>,
     <<PlaceholderToken("input", "k1"), PlaceholderToken("input", "k2")>>,
     <<PlaceholderToken("input", "k1"), BlankToken, PlaceholderToken("context", "one")>>,
     <<QueryToken>>,
     <<TextToken("about"), BlankToken, QueryToken>>}

\* What collected_inputs holds when a template is evaluated.
TemplateInputs ==
    {EmptyDict,
     DictSet(EmptyDict, "k1", StrV("u")),
     DictSet(EmptyDict, "k1", StrV("")),
     DictSet(EmptyDict, "k1", NoneV),
     DictSet(EmptyDict, "k1", ListV(<<StrV("a"), StrV("b")>>)),
     DictSet(EmptyDict, "k1", DictV),
     DictSet(DictSet(EmptyDict, "k1", DictV), "k2", StrV("u"))}

\* The envelopes templates are evaluated against.
TemplateStates ==
    {[InitialState(1, Workflow1, q, ctx) EXCEPT !.collected_inputs = ci]
        : q \in Queries, ctx \in Contexts, ci \in TemplateInputs}

\* A handler fills its prompt template.
FillPrompt ==
    /\ evaluation.op = "fill"
    /\ ~evaluation.done
    /\ evaluation' = [evaluation EXCEPT
            !.done = TRUE,
            !.result = FillPromptTemplate(evaluation.template, evaluation.state)]
    /\ UNCHANGED <<workflows, execution_states, calls, next_execution_id,
                   workflow_seq, data_rows>>

\* ------------------------------------------------------------ database_query
QuoteToken(ch) == [kind |-> "quote", src |-> "", key |-> "", text |-> ch]
ParamToken == [kind |-> "param", src |-> "", key |-> "", text |-> "?"]

\* re.findall(core_placeholder_pattern, query_template)
RECURSIVE PlaceholdersToFill(_)
PlaceholdersToFill(template) ==
    IF template = <<>> THEN <<>>
    ELSE (IF Head(template).kind = "ph" THEN <<Head(template)>> ELSE <<>>)
         \o PlaceholdersToFill(Tail(template))

\* params = tuple(_get_value_from_state(p, state) for p in placeholders_to_fill)
QueryParams(template, state) ==
    LET found == PlaceholdersToFill(template)
    IN [i \in 1..Len(found) |-> GetValueFromState(found[i], state)]

\* What is left of the template after a match that ends before position i:
\* the optional closing quote belongs to the match.
AfterMatch(template, i) ==
    IF i <= Len(template) /\ template[i].kind = "quote"
    THEN SubSeq(template, i + 1, Len(template))
    ELSE SubSeq(template, i, Len(template))

\* A substitution that replaces the placeholder and leaves the quotes.
RECURSIVE SanitizeQueryKeepingQuotes(_)
SanitizeQueryKeepingQuotes(template) ==
    IF template = <<>> THEN <<>>
    ELSE (IF Head(template).kind = "ph" THEN <<ParamToken>> ELSE <<Head(template)>>)
         \o SanitizeQueryKeepingQuotes(Tail(template))

\* re.sub(rf"['\"]?({core_placeholder_pattern})['\"]?", '?', query_template),
\* leftmost match first, the matches not overlapping
RECURSIVE SanitizeQuery(_)
SanitizeQuery(template) ==
    IF template = <<>> THEN <<>>
    ELSE IF Head(template).kind = "quote" /\ Len(template) >= 2 /\ template[2].kind = "ph"
    THEN <<ParamToken>> \o SanitizeQuery(AfterMatch(template, 3))
    ELSE IF Head(template).kind = "ph"
    THEN <<ParamToken>> \o SanitizeQuery(AfterMatch(template, 2))
    ELSE <<Head(template)>> \o SanitizeQuery(Tail(template))

\* DatabaseQueryAction.execute up to the call of the database: a failure for
\* a missing query_template, else the sanitized query and its parameters.
DatabaseQueryStatement(template, state) ==
    IF template = <<>>
    THEN [success |-> FALSE, sql |-> <<>>, params |-> <<>>]
    ELSE [success |-> TRUE, sql |-> SanitizeQuery(template),
          params |-> QueryParams(template, state)]

Select == TextToken("SELECT * FROM t WHERE a =")

\* The query templates: no placeholder, bare, in single and in double quotes,
\* two placeholders, the same one twice, one quote between two placeholders,
\* a quoted literal beside a placeholder, the query, and none.
QueryTemplates ==
    {<<TextToken("SELECT 1")>>,
     <<Select, BlankToken, PlaceholderToken("input", "k1")>>,
     <<Select, BlankToken, QuoteToken("'"), PlaceholderToken("input", "k1"), QuoteToken("'")>>,
     <<Select, BlankToken, QuoteToken("\""), PlaceholderToken("input", "k1"), QuoteToken("\"")>>,
     <<Select, BlankToken, QuoteToken("'"), PlaceholderToken("input", "k1"), QuoteToken("'"),
       TextToken(" AND b ="), BlankToken, PlaceholderToken("context", "one")>>,
     <<Select, BlankToken, PlaceholderToken("input", "k2"),
       TextToken(" OR a ="), BlankToken, PlaceholderToken("input", "k1")>>,
     <<Select, BlankToken, PlaceholderToken("input", "k1"),
       TextToken(" OR b ="), BlankToken, PlaceholderToken("input", "k1")>>,
     <<Select, BlankToken, PlaceholderToken("input", "k1"), QuoteToken("'"),
       PlaceholderToken("input", "k2")>>,
     <<Select, BlankToken, QuoteToken("'"), TextToken("x"), QuoteToken("'"),
       TextToken(" AND b ="), BlankToken, PlaceholderToken("input", "k1")>>,
     <<Select, BlankToken, QuoteToken("'"), QueryToken, QuoteToken("'")>>,
     <<>>}

\* A database_query step builds its statement.
ParameteriseQuery ==
    /\ evaluation.op = "sql"
    /\ ~evaluation.done
    /\ evaluation' = [evaluation EXCEPT
            !.done = TRUE,
            !.result = DatabaseQueryStatement(evaluation.template, evaluation.state)]
    /\ UNCHANGED <<workflows, execution_states, calls, next_execution_id,
                   workflow_seq, data_rows>>

\* A template is about to be evaluated against an envelope.
InitTemplate ==
    /\ workflows = [i \in {} |-> NoWorkflow]
    /\ execution_states = [e \in {} |-> NoState]
    /\ calls = [c \in {} |-> IdleCall]
    /\ next_execution_id = 1
    /\ workflow_seq = 0
    /\ data_rows = NoRows
    /\ evaluation \in
          {[op |-> "fill", template |-> t, state |-> s,
            done |-> FALSE, result |-> NoneV]
              : t \in Templates, s \in TemplateStates}
          \cup {[op |-> "sql", template |-> t, state |-> s,
                 done |-> FALSE, result |-> NoneV]
                   : t \in QueryTemplates, s \in TemplateStates}

NextTemplate == FillPrompt \/ ParameteriseQuery

\* Template evaluations.
SpecTemplate == InitTemplate /\ [][NextTemplate]_vars

\* Graphs saved and read back through the HTTP API, on a fresh database.
SpecApi == InitStorage /\ [][NextApi]_vars

\* ------------------------------------------------------------ C31
\* The nodes (id and type) and the edges (source, handle, target) of an
\* authoring graph.
CanonicalGraph(graph) ==
    [nodes |-> {[id |-> graph.nodes[i].id, type |-> graph.nodes[i].type]
                   : i \in 1..Len(graph.nodes)},
     edges |-> {graph.edges[i] : i \in 1..Len(graph.edges)}]

\* C31: round trip R1. For every saved authoring graph g, GetWorkflow of the
\* id SaveWorkflow(g) returns gives the nodes and edges of g in canonical form,
\* and the stored raw_definition is the authoring JSON of g.
C31_GetAfterSaveReturnsGraph ==
    [][\A graph \in ApiGraphs :
        SaveWorkflowGraph(graph) =>
            LET id == WorkflowIdByName(workflows', graph.name)
            IN /\ GetWorkflowGraph(workflows', id) = CanonicalGraph(graph)
               /\ workflows'[id].raw_definition = AuthoringJson(graph)]_vars

\* ------------------------------------------------------------ C32
\* The placeholders of a template.
PlaceholdersOf(template) ==
    {template[i] : i \in {j \in 1..Len(template) : template[j].kind = "ph"}}

\* A template evaluation is done.
Filled == evaluation.op = "fill" /\ evaluation.done

\* What a template is expected to give in String mode: the literal text with
\* a string value as it is, any other value as its JSON text, and nothing for
\* a value that is not there.
RECURSIVE ExpectedText(_, _)
ExpectedText(template, state) ==
    IF template = <<>> THEN ""
    ELSE LET token == Head(template)
             value == GetValueFromState(token, state)
         IN (IF token.kind # "ph" THEN token.text
             ELSE IF value = NoneV THEN ""
             ELSE IF value.t = "str" THEN value.s
             ELSE JsonDumps(value))
            \o ExpectedText(Tail(template), state)

\* C32: a template that after trimming is exactly one placeholder gives the
\* stored value with its type (a list stays a list, a dict a dict); a template
\* with a placeholder and other text or other placeholders gives a string in
\* which the values that are not strings are embedded as JSON.
C32_WholePlaceholderKeepsTypeElseString ==
    Filled =>
        LET template == evaluation.template
            state == evaluation.state
        IN /\ (IsWholePlaceholder(template)
                 /\ GetValueFromState(Strip(template)[1], state) # NoneV) =>
                    evaluation.result = GetValueFromState(Strip(template)[1], state)
           /\ (PlaceholdersOf(template) # {} /\ Len(Strip(template)) > 1) =>
                    /\ evaluation.result.t = "str"
                    /\ evaluation.result.s = ExpectedText(template, state)

\* A list came back as a list from a placeholder between blanks.
C32_Witness ==
    /\ Filled
    /\ Len(evaluation.template) = 3
    /\ IsWholePlaceholder(evaluation.template)
    /\ evaluation.result.t = "list"
    /\ evaluation.result = ListV(<<StrV("a"), StrV("b")>>)

\* ------------------------------------------------------------ C33
\* Every placeholder of the template resolves to nothing in the envelope.
AllUndefined(template, state) ==
    /\ PlaceholdersOf(template) # {}
    /\ \A token \in PlaceholdersOf(template) : GetValueFromState(token, state) = NoneV

\* The literal text of a template, its placeholders left out.
RECURSIVE LiteralText(_)
LiteralText(template) ==
    IF template = <<>> THEN ""
    ELSE (IF Head(template).kind = "ph" THEN "" ELSE Head(template).text)
         \o LiteralText(Tail(template))

\* C33: in String mode a placeholder whose key is not defined resolves to the
\* empty string, also when the placeholder is the whole template: the result
\* is the literal text and the placeholder text is not in it.
C33_UndefinedResolvesToEmpty ==
    (Filled /\ AllUndefined(evaluation.template, evaluation.state)) =>
        evaluation.result = StrV(LiteralText(evaluation.template))

\* The same for placeholders that stand in other text.
C33_EmbeddedUndefinedResolvesToEmpty ==
    (Filled /\ AllUndefined(evaluation.template, evaluation.state)
            /\ ~IsWholePlaceholder(evaluation.template)) =>
        evaluation.result = StrV(LiteralText(evaluation.template))

\* ------------------------------------------------------------ C34
\* A statement was built.
Parameterised ==
    evaluation.op = "sql" /\ evaluation.done /\ evaluation.result.success

\* The tokens of the given kinds, in order.
RECURSIVE TokensOfKinds(_, _)
TokensOfKinds(tokens, kinds) ==
    IF tokens = <<>> THEN <<>>
    ELSE (IF Head(tokens).kind \in kinds THEN <<Head(tokens)>> ELSE <<>>)
         \o TokensOfKinds(Tail(tokens), kinds)

\* Position i of the template holds a quote that stands beside a placeholder.
WrapsPlaceholder(template, i) ==
    /\ template[i].kind = "quote"
    /\ \/ i > 1 /\ template[i - 1].kind = "ph"
       \/ i < Len(template) /\ template[i + 1].kind = "ph"

\* The quotes of the template that wrap no placeholder.
FreeQuotes(template) ==
    {i \in 1..Len(template) : template[i].kind = "quote" /\ ~WrapsPlaceholder(template, i)}

\* C34: the statement built from a query template holds no placeholder; every
\* placeholder, with the quotes that wrap it, became exactly one '?', the rest
\* of the text staying as it was; params holds the resolved values in the
\* order of the '?', as many as there are '?'.
C34_QueryIsParameterised ==
    Parameterised =>
        LET template == evaluation.template
            sql == evaluation.result.sql
            params == evaluation.result.params
            found == TokensOfKinds(template, {"ph"})
        IN /\ TokensOfKinds(sql, {"ph"}) = <<>>
           /\ Len(TokensOfKinds(sql, {"param"})) = Len(found)
           /\ Len(params) = Len(TokensOfKinds(sql, {"param"}))
           /\ \A i \in 1..Len(found) :
                  params[i] = GetValueFromState(found[i], evaluation.state)
           /\ TokensOfKinds(sql, {"text", "blank"}) = TokensOfKinds(template, {"text", "blank"})
           /\ Len(TokensOfKinds(sql, {"quote"})) = Cardinality(FreeQuotes(template))

\* A quoted and a bare placeholder became two '?' with their two values.
C34_Witness ==
    /\ Parameterised
    /\ Len(evaluation.result.params) = 2
    /\ evaluation.result.params = <<StrV("u"), ListV(<<StrV("a")>>)>>
    /\ Len(TokensOfKinds(evaluation.template, {"quote"})) = 2
    /\ TokensOfKinds(evaluation.result.sql, {"quote"}) = <<>>

\* ------------------------------------------------------------ database_save
\* The table written by database_save steps: id is its primary key and is
\* not null, the other columns may be null.
TableColumns == {"id", "name", "note"}
TableKey == {"id"}

\* The row a statement inserts: the columns it names, NULL elsewhere.
InsertedRow(data) ==
    [c \in TableColumns |-> IF c \in DOMAIN data THEN data[c] ELSE None]

\* The rows with the key of the incoming data.
Conflicting(rows, data) == {r \in rows : r.id = data.id}

\* INSERT OR IGNORE INTO table (columns) VALUES (...): a row that breaks a
\* constraint of the table is skipped.
InsertOrIgnore(rows, data) ==
    IF "id" \notin DOMAIN data \/ Conflicting(rows, data) # {}
    THEN [raised |-> FALSE, rows |-> rows]
    ELSE [raised |-> FALSE, rows |-> rows \cup {InsertedRow(data)}]

\* An upsert that never updates.
UpsertDataInsertOrIgnore(rows, data, primary_key_columns) ==
    InsertOrIgnore(rows, data)

\* DatabaseManager.upsert_data: INSERT OR IGNORE when the data has no column
\* outside primary_key_columns, else INSERT ... ON CONFLICT(primary_key_columns)
\* DO UPDATE SET col = excluded.col for those columns. SQLite raises when the
\* conflict target is not a key of the table or the key is null.
UpsertData(rows, data, primary_key_columns) ==
    LET pk == {primary_key_columns[i] : i \in 1..Len(primary_key_columns)}
        update_columns == DOMAIN data \ pk
    IN IF primary_key_columns = <<>> THEN [raised |-> TRUE, rows |-> rows]
       ELSE IF update_columns = {} THEN InsertOrIgnore(rows, data)
       ELSE IF pk # TableKey \/ "id" \notin DOMAIN data
       THEN [raised |-> TRUE, rows |-> rows]
       ELSE IF Conflicting(rows, data) = {}
       THEN [raised |-> FALSE, rows |-> rows \cup {InsertedRow(data)}]
       ELSE [raised |-> FALSE,
             rows |-> {IF r \in Conflicting(rows, data)
                       THEN [c \in TableColumns |->
                                IF c \in update_columns THEN data[c] ELSE r[c]]
                       ELSE r : r \in rows}]

\* A data_template that resolves to something that is no JSON object.
NotADict == [t |-> "list"]

\* What the data_template of a step resolves to.
DataPayloads ==
    {[id |-> "1", name |-> "x"],
     [id |-> "1", name |-> "y"],
     [id |-> "1", name |-> "y", note |-> "n"],
     [id |-> "1"],
     [id |-> "2", name |-> "x"],
     [id |-> "2", note |-> "n"],
     [id |-> "2"],
     [name |-> "x"],
     NotADict}

\* The primary_key_columns of a step.
PrimaryKeyColumns == {<<>>, <<"id">>, <<"name">>}

InitData ==
    /\ workflows = [i \in {} |-> NoWorkflow]
    /\ execution_states = [e \in {} |-> NoState]
    /\ calls = [c \in {} |-> IdleCall]
    /\ next_execution_id = 1
    /\ workflow_seq = 0
    /\ evaluation = NoEvaluation
    /\ data_rows = NoRows

\* DatabaseSaveAction.execute: a failure for missing primary_key_columns, for
\* data that is no dict and for an error of the database; else the upsert.
DatabaseSave(data, pk_columns) ==
    LET failed == pk_columns = <<>> \/ data = NotADict
        upsert == UpsertData(data_rows, data, pk_columns)
    IN /\ data_rows' = IF failed \/ upsert.raised THEN data_rows ELSE upsert.rows
       /\ evaluation' = [op |-> "save", data |-> data, pk_columns |-> pk_columns,
                         success |-> ~failed /\ ~upsert.raised]
       /\ UNCHANGED <<workflows, execution_states, calls, next_execution_id,
                      workflow_seq>>

NextData == \E data \in DataPayloads, pk_columns \in PrimaryKeyColumns :
                DatabaseSave(data, pk_columns)

\* database_save steps against one table.
SpecData == InitData /\ [][NextData]_vars

\* ------------------------------------------------------------ C35
\* The step just taken upserted a row with a key by the key of the table.
Upserted ==
    /\ evaluation'.op = "save"
    /\ evaluation'.success
    /\ evaluation'.pk_columns = <<"id">>
    /\ "id" \in DOMAIN evaluation'.data

\* C35: after a row is upserted the table holds exactly one row with its
\* primary-key value; when a row with the key existed, every non-PK column of
\* the incoming row has the incoming value and the other columns are as they
\* were; when the incoming row has no non-PK column the existing row is left
\* as it is; the other rows are not touched; upserting the same row again
\* changes nothing.
C35_UpsertByPrimaryKey ==
    [][Upserted =>
        LET data == evaluation'.data
            incoming == DOMAIN data \ TableKey
            old == Conflicting(data_rows, data)
            new == Conflicting(data_rows', data)
        IN /\ Cardinality(new) = 1
           /\ old # {} =>
                \A r \in new :
                    /\ \A c \in incoming : r[c] = data[c]
                    /\ \A c \in TableColumns \ incoming :
                           \A o \in old : r[c] = o[c]
           /\ (old # {} /\ incoming = {}) => data_rows' = data_rows
           /\ old = {} => new = {InsertedRow(data)}
           /\ data_rows' \ new = data_rows \ old
           /\ UpsertData(data_rows', data, <<"id">>).rows = data_rows'
    ]_vars

\* A row that existed took the incoming name and kept its note, beside
\* another row.
C35_Witness ==
    /\ evaluation.op = "save"
    /\ evaluation.success
    /\ evaluation.data = [id |-> "1", name |-> "x"]
    /\ [id |-> "1", name |-> "x", note |-> "n"] \in data_rows
    /\ Cardinality(data_rows) = 2

\* ------------------------------------------------------------ C36
\* The handler of the step call c is at ends in an uncaught exception.
HandlerRaises(c) ==
    /\ c \in DOMAIN calls
    /\ calls[c].pc = "running"
    /\ HasStep(calls[c].workflow, calls[c].state.current_step_id)
    /\ \E o \in ExecuteStepHandler(
                    calls[c].workflow.steps[calls[c].state.current_step_id],
                    calls[c].state) :
            "raised" \in DOMAIN o.result

\* C36: an uncaught exception of a step handler becomes a failure result of
\* the step with the exception's message: the driver appends it to the
\* history and goes to the step's on_failure when one is set; the execution
\* does not end.
C36_UncaughtExceptionIsStepFailure ==
    [][\A c \in Calls :
        (HandlerRaises(c) /\ ExecuteStep(c)) =>
            LET step == calls[c].workflow.steps[calls[c].state.current_step_id]
                history == calls'[c].state.step_history
            IN /\ Len(history) = Len(calls[c].state.step_history) + 1
               /\ history[Len(history)].step_id = step.step_id
               /\ history[Len(history)].success = FALSE
               /\ history[Len(history)].error = "attribute_error"
               /\ step.on_failure # None =>
                    /\ calls'[c].pc = "running"
                    /\ calls'[c].state.current_step_id = step.on_failure
    ]_vars

\* ------------------------------------------------------------ C37
\* The body of the loop is one step that neither suspends nor ends the
\* execution: its success and its failure both lead to an end_loop.
BodyAlwaysReachesEndLoop(wf, step) ==
    /\ HasStep(wf, step.loop_body_start_step_id)
    /\ LET body == wf.steps[step.loop_body_start_step_id]
       IN /\ body.action_type \in {"llm_response", "agentic_tool_use"}
          /\ HasStep(wf, body.on_success)
          /\ wf.steps[body.on_success].action_type = "end_loop"
          /\ HasStep(wf, body.on_failure)
          /\ wf.steps[body.on_failure].action_type = "end_loop"

\* Call c is about to dispatch the start_loop step over a list whose body
\* always reaches its end_loop.
AtStartLoop(c, step) ==
    /\ c \in DOMAIN calls
    /\ calls[c].pc = "running"
    /\ calls[c].state.current_step_id = step.step_id
    /\ HasStep(calls[c].workflow, step.step_id)
    /\ calls[c].workflow.steps[step.step_id] = step
    /\ step.action_type = "start_loop"
    /\ BodyAlwaysReachesEndLoop(calls[c].workflow, step)
    /\ IsInstanceList(ResolvedCollection(c, step))

\* The index of the loop's slot, 0 when there is no slot yet.
LoopIndex(ci, step) ==
    IF LoopStateKey(step.step_id) \in DOMAIN ci
    THEN ci[LoopStateKey(step.step_id)].index ELSE 0

\* What the steps of a loop over n items do: an entry of the body is the
\* next one, with its item and its index, and never one more than n; the
\* completion comes after exactly n of them and goes to on_success.
LoopStep(c, step) ==
    (AtStartLoop(c, step) /\ ExecuteStep(c)) =>
        LET collection == ResolvedCollection(c, step).l
            n == Len(collection)
            i == LoopIndex(calls[c].state.collected_inputs, step)
            ci == calls'[c].state.collected_inputs
        IN IF calls'[c].loop_stack = Append(calls[c].loop_stack, step.step_id)
           THEN /\ i < n
                /\ LoopIndex(ci, step) = i + 1
                /\ ci[step.current_item_output_key] = collection[i + 1]
                /\ calls'[c].state.current_step_id = step.loop_body_start_step_id
           ELSE /\ i = n
                /\ Len(IterationOutputs(calls[c].state.step_history)) = n
                /\ calls'[c].pc = "running"
                /\ HasType(LastEntry(calls'[c].state), "start_loop_complete")
                /\ LoopStateKey(step.step_id) \notin DOMAIN ci
                /\ calls'[c].state.current_step_id = step.on_success

\* The loop of call c is in its last iteration.
InLastIteration(c, step) ==
    /\ c \in DOMAIN calls
    /\ calls[c].pc = "running"
    /\ HasStep(calls[c].workflow, step.step_id)
    /\ calls[c].workflow.steps[step.step_id] = step
    /\ BodyAlwaysReachesEndLoop(calls[c].workflow, step)
    /\ OnStack(c, step.step_id)
    /\ LoopIndex(calls[c].state.collected_inputs, step) =
            Len(ResolvedCollection(c, step).l)

\* The loop of call c has emitted its completion and the execution is at the
\* loop's on_success.
LoopCompleted(c, step) ==
    /\ c \in DOMAIN calls
    /\ calls[c].state.step_history # <<>>
    /\ HasType(LastEntry(calls[c].state), "start_loop_complete")
    /\ LastEntry(calls[c].state).step_id = step.step_id
    /\ calls[c].state.current_step_id = step.on_success

\* The start_loop steps of the saved workflows.
AllStartLoopSteps ==
    UNION {{AllWorkflows[w].steps[id] : id \in
                {i \in DOMAIN AllWorkflows[w].steps :
                    AllWorkflows[w].steps[i].action_type = "start_loop"}}
           : w \in DOMAIN AllWorkflows}

C38_FirstEntryAggregatesNothing ==
    \A c \in DOMAIN calls : \A step \in StartLoopSteps(c) :
        LET ci == calls[c].state.collected_inputs
        IN (calls[c].pc = "running" /\ LoopIndex(ci, step) = 1) =>
                ci[LoopStateKey(step.step_id)].results = <<>>

\* ------------------------------------------------------------ C39
\* The rows the step just taken added to execution_states.
NewRows == DOMAIN execution_states' \ DOMAIN execution_states

\* C39: a driver step of an execution leaves no row behind for another
\* execution (the child a workflow_call ran, suspended or not), and an
\* execution that completes or fails leaves no row of its own either.
C39_NoRowForSuspendedChild ==
    [][\A c \in Calls :
        (ExecuteStep(c) \/ ExecuteEnd(c)) =>
            /\ NewRows \subseteq {calls[c].execution_id}
            /\ (calls'[c].pc = "done"
                /\ calls'[c].response.status \in {"completed", "failed"}) =>
                    calls[c].execution_id \notin DOMAIN execution_states'
    ]_vars

\* ------------------------------------------------------------ C40
\* The types of the history entries that record a pause.
PauseMarkerTypes == {"pause_awaiting_input", "pause_awaiting_file_upload"}

\* C40: in every persisted paused envelope step_history is not empty and its
\* last entry is the pause marker of the step current_step_id names, with
\* that step's output_key: resume finds there the key under which it stores
\* the user value.
C40_PausedEnvelopeEndsWithItsPauseMarker ==
    \A eid \in DOMAIN execution_states :
        execution_states[eid].status = "paused" =>
            LET state == execution_states[eid].state
                wf == AllWorkflows[state.workflow_id]
            IN /\ state.step_history # <<>>
               /\ "type" \in DOMAIN LastEntry(state)
               /\ LastEntry(state).type \in PauseMarkerTypes
               /\ HasStep(wf, state.current_step_id)
               /\ LastEntry(state).step_id = state.current_step_id
               /\ LastEntry(state).output_key = wf.steps[state.current_step_id].output_key

\* An execution that paused a second time: the row's history ends with the
\* marker of the question and names its output_key after earlier entries.
C40_Witness ==
    \E eid \in DOMAIN execution_states :
        /\ execution_states[eid].status = "paused"
        /\ Len(execution_states[eid].state.step_history) >= 3
        /\ LastEntry(execution_states[eid].state).type = "pause_awaiting_input"
        /\ LastEntry(execution_states[eid].state).output_key = "k1"
        /\ LastEntry(execution_states[eid].state).step_id =
                execution_states[eid].state.current_step_id
====
